---------------------------- MODULE Spec2Model ----------------------------
(***************************************************************************)
(* Model of the hybrid crawl engine of heyitsk/autoCrawler:                *)
(*   hybridCrawler.js  (safeEmit, intelligentCrawl, the two wrappers,      *)
(*                      extractBaseDomain, isSameDomain, recursiveCrawl)   *)
(*   urlValidator.js   (normalizeUrl, sanitizeLinks)                       *)
(*   errorHandler.js   (getErrorType)                                      *)
(*   crawlerAxios.js   (crawlWithAxios, as seen by its caller)             *)
(*   crawlerPuppeteer.js (crawlWithPuppeteer, as seen by its caller)       *)
(***************************************************************************)
EXTENDS Integers, Sequences, FiniteSets, TLC

VARIABLES
    opts,               \* the options object of the call (and the start URL)
    arg,                \* the arguments of the call of a function of urlValidator.js
                        \* or errorHandler.js
    site,               \* the web: the anchors of the page behind each URL
    pc,                 \* "idle" | "running" | "done": position of the top-level call
    tasks,              \* the pending async call chains; each is the activation
                        \* records of crawlRecursive, innermost last; tasks[1] is
                        \* the chain recursiveCrawl awaits
    visitedUrls,        \* recursiveCrawl: const visitedUrls = new Set()
    results,            \* recursiveCrawl: const results = []
    maxDepthReached,    \* recursiveCrawl: let maxDepthReached
    currentDepthLevel,  \* recursiveCrawl: let currentDepthLevel
    linkEmitCounter,    \* recursiveCrawl: let linkEmitCounter
    events,             \* what the sink received, in order
    inFlight,           \* intelligentCrawl calls started and not yet settled
    crawlCalls,         \* intelligentCrawl calls started so far
    delaysSinceCall,    \* delay(delayMs) waits completed since the last call started
    callLog,            \* per intelligentCrawl call: in-flight count and delays seen at its start
    scopeLog,           \* decisions of the same-domain check of crawlRecursive
    cancelRequested,    \* the caller of recursiveCrawl has asked for cancellation
    browsing,           \* the calls of crawlWithPuppeteer: their activation records
    browsers,           \* the browser processes puppeteer.launch has started
    batch,              \* the activation record of intelligentCrawlBatch
    returned            \* what the top-level call settled with

vars == << opts, arg, site, pc, tasks, visitedUrls, results, maxDepthReached,
           currentDepthLevel, linkEmitCounter, events, inFlight, crawlCalls,
           delaysSinceCall, callLog, scopeLog, cancelRequested, browsing, browsers,
           batch, returned >>

-----------------------------------------------------------------------------
(* Bounds of the model *)

\* options.childLinksPerPage ranges over 1..MaxChildLinks
MaxChildLinks == 3
\* options.maxDepth ranges over 0..MaxDepthBound
MaxDepthBound == 3
\* options.maxPages ranges over 1..MaxPagesBound
MaxPagesBound == 4

\* JavaScript null, where a URL string is expected
Null == [scheme |-> "null", host |-> "", port |-> 0, path |-> "", ts |-> 0, q |-> FALSE]

-----------------------------------------------------------------------------
(* URL strings.  A URL string is a record                                   *)
(*   scheme://host[:port]/path{/}^ts[?query][#fragment]                     *)
(* with path "" for the root path; q says that a query or a fragment       *)
(* follows the path.  An unparseable string has scheme "".                  *)

Url(scheme, host, port, path, ts, q) ==
    [scheme |-> scheme, host |-> host, port |-> port, path |-> path, ts |-> ts, q |-> q]

\* new URL(s) succeeds
Parses(u) == u.scheme \in {"http", "https"}

\* the URL parser lower-cases the host name
LowerCase(h) == IF h = "A" THEN "a" ELSE IF h = "B" THEN "b" ELSE h

\* number of trailing slashes of new URL(s).pathname: the root path is "/"
PathSlashes(u) == IF u.path = "" /\ u.ts = 0 THEN 1 ELSE u.ts

\* urlValidator.js normalizeUrl: origin + pathname.replace(/\/$/, '')
normalizeUrl(u) ==
    IF ~Parses(u) THEN Null
    ELSE Url(u.scheme, LowerCase(u.host), u.port, u.path,
             IF PathSlashes(u) > 0 THEN PathSlashes(u) - 1 ELSE 0, FALSE)

\* hybridCrawler.js extractBaseDomain: `${protocol}//${hostname}` or null
extractBaseDomain(u) ==
    IF ~Parses(u) THEN Null
    ELSE Url(u.scheme, LowerCase(u.host), 0, "", 0, FALSE)

\* hybridCrawler.js isSameDomain
isSameDomain(u, baseUrl) == extractBaseDomain(u) = extractBaseDomain(baseUrl)

\* urlValidator.js isValidUrlFormat: http/https only (no URL string of the model
\* contains one of the malicious scheme words)
isValidUrlFormat(u) == Parses(u)

RECURSIVE AddAll(_, _)
\* Set insertion order of Array.from(new Set(...)): first occurrences, in order
AddAll(acc, s) ==
    IF s = << >> THEN acc
    ELSE AddAll(IF \E i \in 1..Len(acc) : acc[i] = Head(s) THEN acc ELSE Append(acc, Head(s)),
                Tail(s))

\* link.startsWith('http://') || link.startsWith('https://')
StartsWithHttp(link) == link.scheme \in {"http", "https"}

\* urlValidator.js convertToAbsoluteUrl: new URL(relativeUrl, baseUrl).href, when
\* it is valid.  A link that does not start with http is an absolute-path
\* reference such as "/p/" (scheme "relative"), a URL of another scheme (scheme
\* "mailto"), or a string new URL rejects whatever the base
convertToAbsoluteUrl(relativeUrl, baseUrl) ==
    IF relativeUrl.scheme = "relative" /\ Parses(baseUrl)
    THEN Url(baseUrl.scheme, LowerCase(baseUrl.host), baseUrl.port, relativeUrl.path,
             relativeUrl.ts, relativeUrl.q)
    ELSE Null

\* sanitizeLinks, lines 88-92: let absoluteUrl
AbsoluteUrl(link, baseUrl) ==
    IF StartsWithHttp(link) THEN link ELSE convertToAbsoluteUrl(link, baseUrl)

RECURSIVE SanitizeFrom(_, _, _)
\* sanitizeLinks, lines 84-105: the loop, with processedLinks = acc
SanitizeFrom(acc, links, baseUrl) ==
    IF links = << >> THEN acc
    ELSE IF \/ AbsoluteUrl(Head(links), baseUrl) = Null
            \/ ~isValidUrlFormat(AbsoluteUrl(Head(links), baseUrl))
            \/ normalizeUrl(AbsoluteUrl(Head(links), baseUrl)) = Null
    THEN SanitizeFrom(acc, Tail(links), baseUrl)
    ELSE SanitizeFrom(AddAll(acc, << normalizeUrl(AbsoluteUrl(Head(links), baseUrl)) >>),
                      Tail(links), baseUrl)

\* urlValidator.js sanitizeLinks
sanitizeLinks(links, baseUrl) == SanitizeFrom(<< >>, links, baseUrl)

-----------------------------------------------------------------------------
(* Errors.  An error object is [code, msg, status]: msg is the set of the   *)
(* words getErrorType looks for that the message contains, status is the    *)
(* status of error.response (0: no response).                               *)

Err(code, msg, status) == [code |-> code, msg |-> msg, status |-> status]

HttpErrorKind(status) ==
    CASE status = 400 -> "HTTP_ERROR_400"
      [] status = 404 -> "HTTP_ERROR_404"
      [] status = 500 -> "HTTP_ERROR_500"
      [] status = 503 -> "HTTP_ERROR_503"
      [] OTHER -> "HTTP_ERROR_other"

\* getErrorType with the network rules moved before the SSL/TLS rules
getErrorTypeNetworkFirst(error) ==
    IF error.code = "ETIMEDOUT" \/ "timeout" \in error.msg THEN "TIMEOUT"
    ELSE IF error.code = "ECONNREFUSED" THEN "CONNECTION_REFUSED"
    ELSE IF error.code = "ENOTFOUND" THEN "DNS_ERROR"
    ELSE IF error.code = "CERT_HAS_EXPIRED" THEN "SSL_CERT_EXPIRED"
    ELSE IF error.code \in {"UNABLE_TO_VERIFY_LEAF_SIGNATURE", "ERR_TLS_CERT_ALTNAME_INVALID"}
    THEN "SSL_CERT_INVALID"
    ELSE IF error.code \in {"SELF_SIGNED_CERT_IN_CHAIN", "DEPTH_ZERO_SELF_SIGNED_CERT"}
    THEN "SSL_SELF_SIGNED"
    ELSE IF error.code = "EPROTO" \/ "SSL" \in error.msg \/ "TLS" \in error.msg
    THEN "SSL_ERROR"
    ELSE IF error.status = 429 THEN "RATE_LIMITED"
    ELSE IF error.status # 0 THEN HttpErrorKind(error.status)
    ELSE IF error.code = "ERR_INVALID_URL" THEN "INVALID_URL"
    ELSE "UNKNOWN_ERROR"

\* errorHandler.js getErrorType
getErrorType(error) ==
    IF error.code = "CERT_HAS_EXPIRED" THEN "SSL_CERT_EXPIRED"
    ELSE IF error.code \in {"UNABLE_TO_VERIFY_LEAF_SIGNATURE", "ERR_TLS_CERT_ALTNAME_INVALID"}
    THEN "SSL_CERT_INVALID"
    ELSE IF error.code \in {"SELF_SIGNED_CERT_IN_CHAIN", "DEPTH_ZERO_SELF_SIGNED_CERT"}
    THEN "SSL_SELF_SIGNED"
    ELSE IF error.code = "EPROTO" \/ "SSL" \in error.msg \/ "TLS" \in error.msg
    THEN "SSL_ERROR"
    ELSE IF error.code = "ETIMEDOUT" \/ "timeout" \in error.msg THEN "TIMEOUT"
    ELSE IF error.code = "ECONNREFUSED" THEN "CONNECTION_REFUSED"
    ELSE IF error.code = "ENOTFOUND" THEN "DNS_ERROR"
    ELSE IF error.status = 429 THEN "RATE_LIMITED"
    ELSE IF error.status # 0 THEN HttpErrorKind(error.status)
    ELSE IF error.code = "ERR_INVALID_URL" THEN "INVALID_URL"
    ELSE "UNKNOWN_ERROR"

\* errorHandler.js ERROR_TYPES, with the HTTP_ERROR_<status> kinds of getErrorType
ERROR_TYPES ==
    {"SSL_ERROR", "SSL_CERT_EXPIRED", "SSL_CERT_INVALID", "SSL_SELF_SIGNED", "TIMEOUT",
     "CONNECTION_REFUSED", "DNS_ERROR", "RATE_LIMITED", "INVALID_URL", "UNKNOWN_ERROR",
     "HTTP_ERROR_400", "HTTP_ERROR_404", "HTTP_ERROR_500", "HTTP_ERROR_503", "HTTP_ERROR_other"}

NoError == Err("", {}, 0)

\* what getDetailedErrorInfo returns
ErrorInfo(type, severity, isRetryable) ==
    [type |-> type, severity |-> severity, isRetryable |-> isRetryable]

\* getDetailedErrorInfo, the default case of the switch: for a kind
\* HTTP_ERROR_<status>, statusCode = parseInt(errorType.split('_')[2]) is the
\* status of error.response
DefaultErrorInfo(error) ==
    IF error.status # 0
    THEN IF error.status >= 400 /\ error.status < 500
         THEN ErrorInfo(getErrorType(error), "MEDIUM", FALSE)
         ELSE IF error.status >= 500
         THEN ErrorInfo(getErrorType(error), "HIGH", TRUE)
         ELSE ErrorInfo(getErrorType(error), "MEDIUM", FALSE)
    ELSE ErrorInfo(getErrorType(error), "MEDIUM", FALSE)

\* errorHandler.js getDetailedErrorInfo: type, severity and isRetryable of the
\* object it returns
getDetailedErrorInfo(error) ==
    CASE getErrorType(error) = "SSL_CERT_EXPIRED" -> ErrorInfo("SSL_CERT_EXPIRED", "HIGH", FALSE)
      [] getErrorType(error) = "SSL_CERT_INVALID" -> ErrorInfo("SSL_CERT_INVALID", "HIGH", FALSE)
      [] getErrorType(error) = "SSL_SELF_SIGNED" -> ErrorInfo("SSL_SELF_SIGNED", "MEDIUM", TRUE)
      [] getErrorType(error) = "SSL_ERROR" -> ErrorInfo("SSL_ERROR", "HIGH", TRUE)
      [] getErrorType(error) = "TIMEOUT" -> ErrorInfo("TIMEOUT", "MEDIUM", TRUE)
      [] getErrorType(error) = "CONNECTION_REFUSED" -> ErrorInfo("CONNECTION_REFUSED", "HIGH", FALSE)
      [] getErrorType(error) = "DNS_ERROR" -> ErrorInfo("DNS_ERROR", "CRITICAL", FALSE)
      [] getErrorType(error) = "RATE_LIMITED" -> ErrorInfo("RATE_LIMITED", "MEDIUM", TRUE)
      [] getErrorType(error) = "INVALID_URL" -> ErrorInfo("INVALID_URL", "CRITICAL", FALSE)
      [] OTHER -> DefaultErrorInfo(error)

\* the kinds whose name contains "SSL"
SslNamed(kind) == kind \in {"SSL_ERROR", "SSL_CERT_EXPIRED", "SSL_CERT_INVALID", "SSL_SELF_SIGNED"}

\* crawlerAxios.js crawlWithAxios, catch: new Error(`Failed to crawl ${url}: ${errType} - ${error.message}`)
WrapAxiosError(error) ==
    Err("", error.msg \cup (IF SslNamed(getErrorType(error)) THEN {"SSL"} ELSE {}), 0)

-----------------------------------------------------------------------------
(* Method detector (crawlerDetector.js).  The HTML of a page is summarised  *)
(* by what the detector reads from it: the markers it contains (the texts   *)
(* the framework patterns look for, and "generator~x" for a generator meta  *)
(* tag whose content includes x), the number of script tags and the length  *)
(* of the visible text.  Confidence is counted in tenths.                   *)

\* crawlerDetector.js FRAMEWORK_PATTERNS, in the order of Object.entries: the
\* markers each framework's patterns match (/angular/i matches "@angular" too)
FRAMEWORK_PATTERNS ==
    << [framework |-> "react",
        patterns |-> {"id=root", "__REACT_", "react", "_next/static", "__NEXT_DATA__"}],
       [framework |-> "vue", patterns |-> {"id=app", "Vue.", "vue.js", "__NUXT__"}],
       [framework |-> "angular", patterns |-> {"ng-app", "ng-version", "angular"}],
       [framework |-> "nextjs", patterns |-> {"__NEXT_DATA__", "_next/static", "next.js"}],
       [framework |-> "nuxt", patterns |-> {"__NUXT__", "nuxt.js"}] >>

\* crawlerDetector.js detectFramework ("none" for null): the framework of the
\* first entry of FRAMEWORK_PATTERNS one of whose patterns matches, else the
\* generator meta tag
detectFramework(markers) ==
    IF \E i \in DOMAIN FRAMEWORK_PATTERNS : FRAMEWORK_PATTERNS[i].patterns \cap markers # {}
    THEN FRAMEWORK_PATTERNS[
             CHOOSE i \in DOMAIN FRAMEWORK_PATTERNS :
                 /\ FRAMEWORK_PATTERNS[i].patterns \cap markers # {}
                 /\ \A j \in 1..(i - 1) : FRAMEWORK_PATTERNS[j].patterns \cap markers = {}
         ].framework
    ELSE IF "generator~vue" \in markers THEN "vue"
    ELSE IF "generator~next" \in markers THEN "nextjs"
    ELSE IF "generator~nuxt" \in markers THEN "nuxt"
    ELSE "none"

Content(markers, scriptCount, textLength) ==
    [markers |-> markers, framework |-> detectFramework(markers),
     scriptCount |-> scriptCount, textLength |-> textLength]

\* analyzeContent: scriptToContentRatio > 5
HighScriptRatio(c) ==
    IF c.textLength > 0 THEN c.scriptCount * 1000 > 5 * c.textLength ELSE c.scriptCount > 5

Min(a, b) == IF a <= b THEN a ELSE b
Max(a, b) == IF a >= b THEN a ELSE b

\* needsPuppeteer: the signals that contribute, as the reasons list names them
Signals(c, links) ==
    (IF c.framework # "none" THEN {"framework"} ELSE {})
    \cup (IF Len(links) < 5 THEN {"low link count"} ELSE {})
    \cup (IF HighScriptRatio(c) THEN {"script ratio"} ELSE {})
    \cup (IF c.textLength < 500 THEN {"minimal text"} ELSE {})
    \cup (IF c.scriptCount > 10 /\ c.textLength < 1000 THEN {"many scripts"} ELSE {})

\* a needsPuppeteer whose script-to-content ratio weighs 0.3
ConfidenceRatioThree(signals) ==
    Min((IF "framework" \in signals THEN 4 ELSE 0)
        + (IF "low link count" \in signals THEN 3 ELSE 0)
        + (IF "script ratio" \in signals THEN 3 ELSE 0)
        + (IF "minimal text" \in signals THEN 1 ELSE 0)
        + (IF "many scripts" \in signals THEN 2 ELSE 0), 10)

\* needsPuppeteer: the weights, added up and capped at 1.0, in tenths. The
\* code adds the doubles 0.4, 0.3, 0.2, 0.1, 0.2 in this order; for each of the
\* 32 sets of signals the double sum is above 0.5 exactly when the sum of
\* the tenths is above 5, and toFixed(2) of it is the sum of the tenths
Confidence(signals) ==
    Min((IF "framework" \in signals THEN 4 ELSE 0)
        + (IF "low link count" \in signals THEN 3 ELSE 0)
        + (IF "script ratio" \in signals THEN 2 ELSE 0)
        + (IF "minimal text" \in signals THEN 1 ELSE 0)
        + (IF "many scripts" \in signals THEN 2 ELSE 0), 10)

\* crawlerDetector.js needsPuppeteer
needsPuppeteer(c, links) ==
    [needsPuppeteer |-> Confidence(Signals(c, links)) > 5,
     confidence |-> Confidence(Signals(c, links)),
     reason |-> IF Signals(c, links) # {} THEN Signals(c, links)
                ELSE {"Static content detected"},
     framework |-> c.framework]

-----------------------------------------------------------------------------
(* The two fetchers, as intelligentCrawl sees them.  What the network and   *)
(* the browser do for one URL is a record w:                                *)
(*   hrefs    the absolute href of the anchors of the page, in order        *)
(*   ax       "ok": the static body holds them; "bare": the static body    *)
(*            holds no anchor                                               *)
(*   net      what the server answers to each GET of the static fetcher:    *)
(*            strict[k] to the k-th GET of the strict client, legacy to     *)
(*            the GET of the legacy client                                  *)
(*   content  what the detector reads in the static body                    *)
(*   pup1     first crawlWithPuppeteer call: "ok", "fail" (an error caught  *)
(*            inside, pupErr), "closeThrows" (browser.close() rejects in    *)
(*            the finally block)                                            *)
(*   pup2     the same for a second call                                    *)

NoValue == [title |-> "", links |-> << >>, url |-> Null, content |-> Content({}, 0, 0)]

\* normalizeUrl(url) || url
ShownUrl(url) == IF normalizeUrl(url) # Null THEN normalizeUrl(url) ELSE url

\* what a server does with one GET: it answers with a status, or the request
\* fails with an error
Responds(status) == [threw |-> FALSE, status |-> status, error |-> NoError]
Rejects(error) == [threw |-> TRUE, status |-> 0, error |-> error]

\* createSecureAxiosInstance, createLegacyAxiosInstance:
\* validateStatus: status => status < 500; axios rejects the other statuses
\* with an error that carries the response
validateStatus(status) == status < 500

AxiosGet(answer) ==
    IF ~answer.threw /\ ~validateStatus(answer.status)
    THEN Rejects(Err("ERR_BAD_RESPONSE", {}, answer.status))
    ELSE answer

\* errorHandler.js shouldNotRetry
shouldNotRetry(error) ==
    \/ error.code \in {"ENOTFOUND", "ERR_INVALID_URL", "CERT_HAS_EXPIRED", "ECONNREFUSED"}
    \/ error.status \in {400, 401, 403, 404, 410}

\* const waitTime = 1500 * attempt
RetryWaitMs == 1500

\* one step of the static fetcher: a GET of the strict client, a GET of the
\* legacy client, a wait
FetchStep(op, attempt, ms) == [type |-> "fetch", op |-> op, attempt |-> attempt, ms |-> ms]

\* how fetchWithRetry settles: it returns a response (status; 0: it returns
\* undefined), or throws error; log is the steps it took
Fetched(threw, status, error, log) ==
    [threw |-> threw, status |-> status, error |-> error, log |-> log]

\* fetchWithRetry, lines 74-82: the legacy client is tried, what it gives is
\* returned or thrown
LegacyFallback(net, attempt, log) ==
    Fetched(AxiosGet(net.legacy).threw, AxiosGet(net.legacy).status, AxiosGet(net.legacy).error,
            Append(log, FetchStep("legacy", attempt, 0)))

RECURSIVE SecureAttempt(_, _, _, _)
\* fetchWithRetry, lines 65-93: the loop, at the head of iteration attempt
SecureAttempt(net, maxRetries, attempt, log) ==
    IF attempt > maxRetries
    THEN Fetched(FALSE, 0, NoError, log)
    ELSE IF ~AxiosGet(net.strict[attempt]).threw
    THEN Fetched(FALSE, net.strict[attempt].status, NoError,
                 Append(log, FetchStep("strict", attempt, 0)))
    ELSE IF getErrorType(AxiosGet(net.strict[attempt]).error) = "SSL_ERROR"
    THEN LegacyFallback(net, attempt, Append(log, FetchStep("strict", attempt, 0)))
    ELSE IF attempt < maxRetries /\ ~shouldNotRetry(AxiosGet(net.strict[attempt]).error)
    THEN SecureAttempt(net, maxRetries, attempt + 1,
                       log \o << FetchStep("strict", attempt, 0),
                                 FetchStep("wait", attempt, RetryWaitMs * attempt) >>)
    ELSE Fetched(TRUE, 0, AxiosGet(net.strict[attempt]).error,
                 Append(log, FetchStep("strict", attempt, 0)))

\* crawlerAxios.js fetchWithRetry
fetchWithRetry(net, maxRetries) == SecureAttempt(net, maxRetries, 1, << >>)

\* const { maxRetries = 2 } = options
DefaultMaxRetries == 2

\* new Error(`HTTP ${response.status}: Failed to fetch ${url}`), and the
\* TypeError of reading the status of undefined: no code, no response
PlainError == Err("", {}, 0)

\* crawlWithAxios, lines 113-162: after fetchWithRetry settled with f
Fetching(url, w, f) ==
    IF f.threw
    THEN [threw |-> TRUE, error |-> WrapAxiosError(f.error), value |-> NoValue, log |-> f.log]
    ELSE IF f.status = 0 \/ f.status >= 400
    THEN [threw |-> TRUE, error |-> WrapAxiosError(PlainError), value |-> NoValue, log |-> f.log]
    ELSE [threw |-> FALSE, error |-> NoError,
          value |-> [title |-> "t",
                     links |-> IF w.ax = "bare" THEN << >> ELSE AddAll(<< >>, w.hrefs),
                     url |-> ShownUrl(url),
                     content |-> w.content],
          log |-> f.log]

\* crawlerAxios.js crawlWithAxios
crawlWithAxios(url, maxRetries, w) == Fetching(url, w, fetchWithRetry(w.net, maxRetries))

\* a result object, as the callers of intelligentCrawl read it
Result(success, method, url, links, errorType, reason, confidence, framework) ==
    [success |-> success, method |-> method, url |-> url, links |-> links,
     errorType |-> errorType, detectionReason |-> reason,
     confidence |-> confidence, framework |-> framework]

\* the error browser.close() rejects with
CloseError == Err("", {}, 0)

\* crawlerPuppeteer.js crawlWithPuppeteer
crawlWithPuppeteer(url, outcome, w) ==
    IF outcome = "closeThrows"
    THEN [threw |-> TRUE, error |-> CloseError,
          value |-> Result(FALSE, "", ShownUrl(url), << >>, "", {}, -1, "")]
    ELSE IF outcome = "fail"
    THEN [threw |-> FALSE, error |-> NoError,
          value |-> Result(FALSE, "", ShownUrl(url), << >>, getErrorType(w.pupErr), {}, -1, "")]
    ELSE [threw |-> FALSE, error |-> NoError,
          value |-> Result(TRUE, "", ShownUrl(url), sanitizeLinks(w.hrefs, url), "", {}, -1, "")]

-----------------------------------------------------------------------------
(* Events *)

(* The sequence es a call builds is what it did, in order: the events the  *)
(* sink received, and marks for the calls of the fetchers and the detector  *)
(* (type "call") and for the steps of the static fetcher (type "fetch").    *)

NoSink == [emitEvent |-> "null", socketId |-> FALSE]

\* the mark of a call of crawlWithAxios, crawlWithPuppeteer or needsPuppeteer
Call(fetcher) == [type |-> "call", fetcher |-> fetcher]

\* the events of es: what the sink received
Emitted(es) == SelectSeq(es, LAMBDA e : e.type \notin {"call", "fetch"})

\* an exception that leaves safeEmit
Escaped(ev) == [type |-> "escaped", event |-> ev.type]

safeEmitWithoutCatch(sink, es, ev) ==
    IF sink.emitEvent = "null" \/ ~sink.socketId THEN es
    ELSE IF sink.emitEvent = "fn" THEN Append(es, ev)
    ELSE IF sink.emitEvent = "throws" THEN Append(es, Escaped(ev))
    ELSE es

\* hybridCrawler.js safeEmit: emitEvent is called when it and socketId are
\* set.  emitEvent is "fn" (the event reaches the sink), "throws" (the call
\* throws, the catch logs it) or "uninit" (emitCrawlEvent before Socket.IO is
\* initialised: it returns without emitting)
safeEmit(sink, es, ev) ==
    IF sink.emitEvent = "null" \/ ~sink.socketId THEN es
    ELSE IF sink.emitEvent = "fn" THEN Append(es, ev)
    ELSE es

CompleteSingle(method, totalLinks) ==
    [type |-> "crawl:complete", totalPages |-> 1, totalLinks |-> totalLinks, method |-> method]

MethodDetected(url, method, reason) ==
    [type |-> "crawl:method-detected", url |-> url, method |-> method, reason |-> reason]

\* crawlWithAxiosWrapper, lines 201-221: after crawlWithAxios settled with r
AxiosWrapped(r, url, reason, sink, es) ==
    IF r.threw
    THEN [threw |-> TRUE, error |-> r.error, events |-> es \o r.log,
          result |-> Result(FALSE, "", url, << >>, "", {}, -1, "")]
    ELSE [threw |-> FALSE, error |-> NoError,
          events |-> safeEmit(sink, es \o r.log, CompleteSingle("axios", Len(r.value.links))),
          result |-> Result(TRUE, "axios", r.value.url, r.value.links, "", reason, -1, "")]

\* hybridCrawler.js crawlWithAxiosWrapper
crawlWithAxiosWrapper(url, w, reason, sink, es) ==
    AxiosWrapped(crawlWithAxios(url, DefaultMaxRetries, w), url, reason, sink,
                 Append(es, Call("axios")))

\* a wrapper that emits crawl:complete before it learns how crawlWithPuppeteer
\* settled
PuppeteerWrappedCompleteFirst(r, reason, sink, es) ==
    IF r.threw
    THEN [threw |-> TRUE, error |-> r.error,
          events |-> safeEmit(sink, es, CompleteSingle("puppeteer", 0)), result |-> r.value]
    ELSE [threw |-> FALSE, error |-> NoError,
          events |-> safeEmit(sink, es, CompleteSingle("puppeteer", Len(r.value.links))),
          result |-> [r.value EXCEPT !.method = "puppeteer", !.detectionReason = reason]]

\* crawlWithPuppeteerWrapper, lines 229-248: after crawlWithPuppeteer settled with r
PuppeteerWrapped(r, reason, sink, es) ==
    IF r.threw
    THEN [threw |-> TRUE, error |-> r.error, events |-> es, result |-> r.value]
    ELSE [threw |-> FALSE, error |-> NoError,
          events |-> safeEmit(sink, es, CompleteSingle("puppeteer", Len(r.value.links))),
          result |-> [r.value EXCEPT !.method = "puppeteer", !.detectionReason = reason]]

\* hybridCrawler.js crawlWithPuppeteerWrapper
crawlWithPuppeteerWrapper(url, outcome, w, reason, sink, es) ==
    PuppeteerWrapped(crawlWithPuppeteer(url, outcome, w), reason, sink,
                     Append(es, Call("puppeteer")))

-----------------------------------------------------------------------------
(* intelligentCrawl (crawlOne).  o is its options object; the run it        *)
(* returns records how the call settled, the result object, the events it   *)
(* emitted and the calls it made.                                           *)

Run(threw, result, es, axiosCalls, pupCalls, detectorCalls) ==
    [threw |-> threw, result |-> result, events |-> es, axiosCalls |-> axiosCalls,
     pupCalls |-> pupCalls, detectorCalls |-> detectorCalls]

CrawlError(url, errorType, fatal, depth) ==
    [type |-> "crawl:error", failedUrl |-> url, errorType |-> errorType,
     fatal |-> fatal, depth |-> depth]

OuterCatchRethrows(url, sink, es, error, axiosCalls, pupCalls, detectorCalls) ==
    Run(TRUE,
        Result(FALSE, "none", url, << >>, getErrorType(error), {}, -1, ""),
        safeEmit(sink, es, CrawlError(url, getErrorType(error), TRUE, -1)),
        axiosCalls, pupCalls, detectorCalls)

\* intelligentCrawl, lines 167-193: the outer catch
OuterCatch(url, sink, es, error, axiosCalls, pupCalls, detectorCalls) ==
    Run(FALSE,
        Result(FALSE, "none", url, << >>, getErrorType(error), {}, -1, ""),
        safeEmit(sink, es, CrawlError(url, getErrorType(error), TRUE, -1)),
        axiosCalls, pupCalls, detectorCalls)

\* `return await wrapper(...)` inside the outer try only: the wrapper's result
\* is returned, what it throws goes to the outer catch
Settle(url, sink, p, axiosCalls, pupCalls, detectorCalls) ==
    IF p.threw
    THEN OuterCatch(url, sink, p.events, p.error, axiosCalls, pupCalls, detectorCalls)
    ELSE Run(FALSE, p.result, p.events, axiosCalls, pupCalls, detectorCalls)

\* intelligentCrawl, lines 151-165: the catch of the inner try
InnerCatch(url, sink, es, error, outcome, w, pupCalls, detectorCalls) ==
    Settle(url, sink,
           crawlWithPuppeteerWrapper(
               url, outcome, w, {"axios_error", getErrorType(error)}, sink,
               safeEmit(sink, es,
                        MethodDetected(url, "puppeteer", {"Axios error", getErrorType(error)}))),
           1, pupCalls + 1, detectorCalls)

\* `return await crawlWithPuppeteerWrapper(...)` inside the inner try: what the
\* wrapper throws goes to the catch of the inner try
SettleInner(url, sink, w, p, detectorCalls) ==
    IF p.threw
    THEN InnerCatch(url, sink, p.events, p.error, w.pup2, w, 1, detectorCalls)
    ELSE Run(FALSE, p.result, p.events, 1, 1, detectorCalls)

DecideWithoutThreshold(url, o, sink, es, w, axiosResult, detection) ==
    IF detection.needsPuppeteer
    THEN SettleInner(url, sink, w,
                     crawlWithPuppeteerWrapper(
                         url, w.pup1, w, detection.reason, sink,
                         safeEmit(sink, es, MethodDetected(url, "puppeteer", detection.reason))),
                     1)
    ELSE Run(FALSE,
             Result(TRUE, "axios", axiosResult.url, axiosResult.links, "",
                    detection.reason, detection.confidence, detection.framework),
             safeEmit(sink, es, CompleteSingle("axios", Len(axiosResult.links))),
             1, 0, 1)

\* an intelligentCrawl that escalates whenever the confidence reaches the
\* threshold
DecideByThresholdAlone(url, o, sink, es, w, axiosResult, detection) ==
    IF detection.confidence >= o.detectionThreshold
    THEN SettleInner(url, sink, w,
                     crawlWithPuppeteerWrapper(
                         url, w.pup1, w, detection.reason, sink,
                         safeEmit(sink, es, MethodDetected(url, "puppeteer", detection.reason))),
                     1)
    ELSE Run(FALSE,
             Result(TRUE, "axios", axiosResult.url, axiosResult.links, "",
                    detection.reason, detection.confidence, detection.framework),
             safeEmit(sink, es, CompleteSingle("axios", Len(axiosResult.links))),
             1, 0, 1)

\* intelligentCrawl, lines 101-149: the detector's verdict decides
Decide(url, o, sink, es, w, axiosResult, detection) ==
    IF detection.needsPuppeteer /\ detection.confidence >= o.detectionThreshold
    THEN SettleInner(url, sink, w,
                     crawlWithPuppeteerWrapper(
                         url, w.pup1, w, detection.reason, sink,
                         safeEmit(sink, es, MethodDetected(url, "puppeteer", detection.reason))),
                     1)
    ELSE Run(FALSE,
             Result(TRUE, "axios", axiosResult.url, axiosResult.links, "",
                    detection.reason, detection.confidence, detection.framework),
             safeEmit(sink, es, CompleteSingle("axios", Len(axiosResult.links))),
             1, 0, 1)

\* intelligentCrawl, lines 84-99 and 151: after crawlWithAxios settled with a
AfterAxios(url, o, sink, es, w, a) ==
    IF a.threw
    THEN InnerCatch(url, sink, es \o a.log, a.error, w.pup1, w, 0, 0)
    ELSE IF Len(a.value.links) = 0
    THEN SettleInner(url, sink, w,
                     crawlWithPuppeteerWrapper(
                         url, w.pup1, w, {"axios_failed"}, sink,
                         safeEmit(sink, es \o a.log,
                                  MethodDetected(url, "puppeteer", {"Axios returned no links"}))),
                     0)
    ELSE Decide(url, o, sink, Append(es \o a.log, Call("detector")), w, a.value,
                needsPuppeteer(a.value.content, a.value.links))

\* intelligentCrawl, lines 83-165: the inner try and its catch
InnerTry(url, o, sink, es, w) ==
    AfterAxios(url, o, sink, Append(es, Call("axios")), w,
               crawlWithAxios(url, DefaultMaxRetries, w))

\* intelligentCrawl, lines 60-81: after crawl:start, the method is chosen
Started(url, o, w, sink, es0) ==
    IF o.forceMethod = "puppeteer"
    THEN Settle(url, sink,
                crawlWithPuppeteerWrapper(url, w.pup1, w, {"forced"}, NoSink, es0), 0, 1, 0)
    ELSE IF o.forceMethod = "axios"
    THEN Settle(url, sink, crawlWithAxiosWrapper(url, w, {"forced"}, NoSink, es0), 1, 0, 0)
    ELSE InnerTry(url, o, sink,
                  safeEmit(sink, es0,
                           MethodDetected(url, "axios", {"Initial attempt with fast method"})),
                  w)

SinkOf(o) == [emitEvent |-> o.emitEvent, socketId |-> o.socketId]

\* hybridCrawler.js intelligentCrawl
intelligentCrawl(url, o, w) ==
    Started(url, o, w, SinkOf(o),
            safeEmit(SinkOf(o), << >>,
                     [type |-> "crawl:start", startUrl |-> url, maxDepth |-> 0,
                      crawlType |-> "single"]))

-----------------------------------------------------------------------------
(* What the model draws its inputs from *)

RootA    == Url("https", "a", 0, "", 1, FALSE)      \* https://a/
PageA    == Url("https", "a", 0, "p", 0, FALSE)     \* https://a/p
PageAq   == Url("https", "a", 0, "p", 1, TRUE)      \* https://a/p/?x=1
PageA2   == Url("https", "a", 0, "p", 2, FALSE)     \* https://a/p//
PageHttp == Url("http", "a", 0, "p", 0, FALSE)      \* http://a/p
PageB    == Url("https", "b", 0, "p", 0, FALSE)     \* https://b/p
PagePort == Url("https", "a", 8080, "p", 0, FALSE)  \* https://a:8080/p
SeedUp   == Url("https", "A", 0, "", 0, FALSE)      \* https://A
Invalid  == Url("", "", 0, "", 0, FALSE)            \* not a URL

\* the absolute hrefs a page can show
LinkUrls == {RootA, PageA, PageAq, PageA2, PageHttp, PageB, PagePort}

\* the start URLs
StartUrls == {RootA, SeedUp, Invalid}

\* the pages of https://site.test, and a page of another host
TestRoot == Url("https", "site.test", 0, "", 0, FALSE)     \* https://site.test
TestA    == Url("https", "site.test", 0, "a", 0, FALSE)    \* https://site.test/a
TestB    == Url("https", "site.test", 0, "b", 0, FALSE)    \* https://site.test/b
TestA1   == Url("https", "site.test", 0, "a1", 0, FALSE)   \* https://site.test/a1
TestA2   == Url("https", "site.test", 0, "a2", 0, FALSE)   \* https://site.test/a2
TestB1   == Url("https", "site.test", 0, "b1", 0, FALSE)   \* https://site.test/b1
External == Url("https", "external.com", 0, "", 1, FALSE)  \* https://external.com/
TestUrls == {TestRoot, TestA, TestB, TestA1, TestA2, TestB1, External}

\* https://spa.test and the two pages it links to
SpaRoot == Url("https", "spa.test", 0, "", 0, FALSE)
SpaDocs == Url("https", "spa.test", 0, "docs", 0, FALSE)
SpaBlog == Url("https", "spa.test", 0, "blog", 0, FALSE)
SpaUrls == {SpaRoot, SpaDocs, SpaBlog}

\* every string the crawl can be handed: the hrefs, what sanitizeLinks makes of
\* them, the start URLs
AllUrls == LinkUrls \cup {normalizeUrl(u) : u \in LinkUrls} \cup StartUrls \cup TestUrls
           \cup SpaUrls

RootKey   == normalizeUrl(RootA)                     \* https://a
PageSlash == normalizeUrl(PageA2)                    \* https://a/p/

\* a site with links back to the start page, a page that links to itself, two
\* hrefs with one key, a scheme change, another host and another port
SiteMain ==
    [u \in AllUrls |->
        CASE u \in {RootA, SeedUp, RootKey} -> << PageB, PageA, PageAq, PageHttp >>
          [] u \in {PageA, PageAq, PageSlash} -> << RootA, PageA, PageA2, PagePort >>
          [] u = PageA2 -> << PageA, PagePort >>
          [] u = PageB -> << PageB, RootA, PageHttp >>
          [] u = PageHttp -> << PageA, PageB >>
          [] OTHER -> << >>]

\* a site whose first link has a doubled trailing slash
SiteAlt ==
    [u \in AllUrls |->
        CASE u \in {RootA, SeedUp, RootKey} -> << PageA2, PageA, PagePort >>
          [] u = PageA2 -> << PageAq, PagePort >>
          [] u \in {PageA, PageAq, PageSlash} -> << PageHttp >>
          [] u = PageHttp -> << RootA >>
          [] u = PagePort -> << PageB >>
          [] OTHER -> << >>]

Sites == {SiteMain, SiteAlt}

\* https://site.test: / links to /a, /b and another host, /a to /a1 and /a2,
\* /b to /b1
SiteTest ==
    [u \in AllUrls |->
        CASE u = TestRoot -> << TestA, TestB, External >>
          [] u = TestA -> << TestA1, TestA2 >>
          [] u = TestB -> << TestB1 >>
          [] OTHER -> << >>]

\* https://spa.test: a page with 2 links
SiteSpa == [u \in AllUrls |-> IF u = SpaRoot THEN << SpaDocs, SpaBlog >> ELSE << >>]

TimeoutError == Err("ECONNABORTED", {"timeout"}, 0)
ExpiredError == Err("CERT_HAS_EXPIRED", {}, 0)
InvalidUrlError == Err("ERR_INVALID_URL", {}, 0)
SelfSignedError == Err("DEPTH_ZERO_SELF_SIGNED_CERT", {}, 0)
UnverifiedError == Err("UNABLE_TO_VERIFY_LEAF_SIGNATURE", {}, 0)
HandshakeError == Err("EPROTO", {}, 0)
RefusedError == Err("ECONNREFUSED", {}, 0)
NavigationError == Err("", {}, 0)

\* the answers of a server to the GETs of the static fetcher
Net(strict, legacy) == [strict |-> strict, legacy |-> legacy]

\* the static fetcher is tried on every number of attempts up to this one
MaxRetriesBound == 3

RECURSIVE Seqs(_, _)
\* the sequences of length n over S
Seqs(S, n) == IF n = 0 THEN {<< >>} ELSE {Append(q, x) : q \in Seqs(S, n - 1), x \in S}

\* what a server can do with a GET of the strict client
StrictAnswers ==
    {Responds(200), Responds(404), Responds(429), Responds(503), Rejects(TimeoutError),
     Rejects(ExpiredError), Rejects(SelfSignedError), Rejects(UnverifiedError),
     Rejects(HandshakeError), Rejects(RefusedError)}
\* and with the GET of the legacy client
LegacyAnswers == {Responds(200), Responds(404), Rejects(HandshakeError)}

\* the servers the static fetcher is tried on
FetchNets == {Net(q, l) : q \in Seqs(StrictAnswers, MaxRetriesBound), l \in LegacyAnswers}

\* the servers of the pages of a site
NetOk == Net(<< Responds(200), Responds(200) >>, Responds(200))
NetTimeout == Net(<< Rejects(TimeoutError), Rejects(TimeoutError) >>, Responds(200))
NetExpired == Net(<< Rejects(ExpiredError), Responds(200) >>, Responds(200))
NetInvalidUrl == Net(<< Rejects(InvalidUrlError), Rejects(InvalidUrlError) >>, Rejects(InvalidUrlError))
NetBusy == Net(<< Responds(429), Responds(200) >>, Responds(200))
NetSlow == Net(<< Rejects(TimeoutError), Responds(200) >>, Responds(200))
NetOldTls == Net(<< Rejects(HandshakeError), Responds(200) >>, Responds(200))
NetSelfSigned == Net(<< Rejects(SelfSignedError), Rejects(SelfSignedError) >>, Responds(200))
\* in a recursive crawl
SessionNets == {NetOk, NetTimeout}
\* in a single-page crawl
PageNets == SessionNets \cup {NetBusy, NetExpired, NetSlow, NetOldTls, NetSelfSigned}
\* the servers of the page at url in a recursive crawl: one page of the sites
\* is rate limited
SessionNetsAt(url) == IF url = PageA THEN {NetOk, NetBusy} ELSE SessionNets
\* what crawlWithPuppeteer catches when it fails
PupErrors == {NavigationError}

PlainContent == Content({}, 2, 2000)
\* a Next.js page: a __NEXT_DATA__ script, many scripts, little text
SpaContent == Content({"__NEXT_DATA__"}, 12, 100)
FrameworkContent == Content({"react"}, 2, 2000)
\* a page with much text that names next.js and nothing else
NextNamedContent == Content({"next.js"}, 2, 2000)
\* the static bodies of the pages of a recursive crawl, of a single-page crawl
SessionContents == {PlainContent, SpaContent}
\* a page with much text and a __NEXT_DATA__ script
NextDataContent == Content({"__NEXT_DATA__"}, 2, 2000)
PageContents == SessionContents \cup {FrameworkContent, NextNamedContent, NextDataContent}

\* options.detectionThreshold, in tenths (default 0.5)
DefaultThreshold == 5
Thresholds == {3, DefaultThreshold, 7, 8}
ForceMethods == {"null", "axios", "puppeteer"}

World(hrefs, ax, net, content, pup1, pup2, pupErr) ==
    [hrefs |-> hrefs, ax |-> ax, net |-> net, content |-> content,
     pup1 |-> pup1, pup2 |-> pup2, pupErr |-> pupErr]

\* the behaviours of the fetchers on a page with the anchors hrefs whose
\* server is one of nets and whose static body is one of contents
AllWorlds(hrefs, nets, contents) ==
    {World(hrefs, ax, n, c, p1, p2, pe) :
        ax \in {"ok", "bare"}, n \in nets \cup {NetInvalidUrl},
        c \in contents, p1 \in {"ok", "fail", "closeThrows"},
        p2 \in {"ok", "fail", "closeThrows"}, pe \in PupErrors}

\* what a call does not read has one value (every behaviour of the fetchers
\* appears once); a malformed URL is fetched by nobody
CanonicalRun(url, w, r) ==
    /\ r.axiosCalls = 0 => (w.ax = "bare" /\ w.net = NetOk)
    /\ (r.axiosCalls = 1 /\ ~Parses(url)) => w.net = NetInvalidUrl
    /\ Parses(url) => w.net # NetInvalidUrl
    /\ w.ax = "ok" => w.hrefs # << >>
    /\ crawlWithAxios(url, DefaultMaxRetries, w).threw => w.ax = "bare"
    /\ r.detectorCalls = 0 => w.content = PlainContent
    /\ r.pupCalls < 1 => w.pup1 = "ok"
    /\ r.pupCalls < 2 => w.pup2 = "ok"
    /\ ~Parses(url) => ~((r.pupCalls >= 1 /\ w.pup1 = "ok") \/ (r.pupCalls >= 2 /\ w.pup2 = "ok"))

Canonical(url, o, w) == CanonicalRun(url, w, intelligentCrawl(url, o, w))

\* the ways intelligentCrawl(url, o) can settle on a page with the anchors
\* hrefs: the run, and the behaviour of the fetchers that gives it
Settlements(url, hrefs, o, nets, contents) ==
    {[run |-> intelligentCrawl(url, o, w), world |-> w] :
        w \in {v \in AllWorlds(hrefs, nets, contents) : Canonical(url, o, v)}}

-----------------------------------------------------------------------------
(* The state machine: per behaviour, one call of intelligentCrawl (mode      *)
(* "single"), of recursiveCrawl ("recursive"), of fetchWithRetry ("fetch"), *)
(* of intelligentCrawlBatch ("batch"), overlapping calls of                 *)
(* crawlWithPuppeteer ("browse"), or one call of normalizeUrl ("key"), of   *)
(* sanitizeLinks ("links") or of the functions of errorHandler.js           *)
(* ("classify"), or one call of intelligentCrawl in auto mode on a page     *)
(* whose static body and link count are drawn from a grid ("detect").       *)

Options(mode, startUrl, maxDepth, maxPages, childLinksPerPage, sameDomainOnly, emitEvent, socketId, forceMethod, detectionThreshold, maxRetries) ==
    [mode |-> mode, startUrl |-> startUrl, maxDepth |-> maxDepth, maxPages |-> maxPages,
     childLinksPerPage |-> childLinksPerPage, sameDomainOnly |-> sameDomainOnly,
     emitEvent |-> emitEvent, socketId |-> socketId, forceMethod |-> forceMethod,
     detectionThreshold |-> detectionThreshold, maxRetries |-> maxRetries]

\* the sinks a caller passes: none, an emitter without a socket id, both
Sinks == {<< "null", FALSE >>, << "fn", FALSE >>, << "fn", TRUE >>}
\* the sinks that fail: an emitter that throws, emitCrawlEvent before
\* Socket.IO is initialised
FailingSinks == {<< "throws", TRUE >>, << "uninit", TRUE >>}

SingleOptions ==
    {Options("single", u, 0, 1, 1, TRUE, s[1], s[2], fm, th, DefaultMaxRetries) :
        u \in {RootA, Invalid}, s \in Sinks \cup FailingSinks, fm \in ForceMethods, th \in Thresholds}

\* intelligentCrawl("https://spa.test") with the default options and a sink
SpaOptions ==
    Options("single", SpaRoot, 0, 1, 1, TRUE, "fn", TRUE, "null", DefaultThreshold,
            DefaultMaxRetries)

\* recursiveCrawl("https://site.test", {maxDepth: 2, maxPages: 5,
\* childLinksPerPage: 2, sameDomainOnly: true})
SiteTestOptions ==
    Options("recursive", TestRoot, 2, 5, 2, TRUE, "null", FALSE, "null", DefaultThreshold,
            DefaultMaxRetries)

RecursiveOptions ==
    {Options("recursive", u, d, n, c, sd, s[1], s[2], fm, th, DefaultMaxRetries) :
        u \in {SeedUp}, d \in 0..MaxDepthBound, n \in 1..MaxPagesBound,
        c \in 1..MaxChildLinks, sd \in BOOLEAN, s \in {<< "fn", TRUE >>},
        fm \in {"null"}, th \in {DefaultThreshold}}
    \cup {Options("recursive", Invalid, 1, 1, 1, TRUE, "fn", TRUE, "null", DefaultThreshold,
                   DefaultMaxRetries)}
    \cup {Options("recursive", SeedUp, MaxDepthBound, n, MaxChildLinks, sd, s[1], s[2], "null",
                   DefaultThreshold, DefaultMaxRetries) :
              n \in 1..MaxPagesBound, sd \in BOOLEAN, s \in {<< "null", FALSE >>} \cup FailingSinks}
    \cup {SiteTestOptions}

\* fetchWithRetry(url, maxRetries)
FetchOptions ==
    {Options("fetch", RootA, 0, 1, 1, TRUE, "null", FALSE, "null", DefaultThreshold, n) :
        n \in 0..MaxRetriesBound}

\* crawlWithPuppeteer(url, options), called by any number of callers
BrowseOptions ==
    {Options("browse", RootA, 0, 1, 1, TRUE, "null", FALSE, "null", DefaultThreshold,
             DefaultMaxRetries)}

\* intelligentCrawlBatch(urls, {concurrency}): the options left for intelligentCrawl
BatchOptions ==
    {Options("batch", RootA, 0, 1, 1, TRUE, "null", FALSE, "null", DefaultThreshold,
             DefaultMaxRetries)}

\* what intelligentCrawl reads of its options
CallOptions(o) ==
    [forceMethod |-> o.forceMethod, detectionThreshold |-> o.detectionThreshold,
     emitEvent |-> o.emitEvent, socketId |-> o.socketId]

AllCallOptions ==
    {[forceMethod |-> fm, detectionThreshold |-> th, emitEvent |-> s[1], socketId |-> s[2]] :
        fm \in ForceMethods, th \in Thresholds, s \in Sinks \cup FailingSinks}

\* the options of the calls of a recursive crawl
SessionCallOptions == {o \in AllCallOptions : o.forceMethod = "null" /\ o.detectionThreshold = DefaultThreshold}

\* Settlements, for every URL, site and options of the recursive crawls of the model
SettlementsOf ==
    [u \in AllUrls, s \in Sites \cup {SiteTest}, o \in SessionCallOptions |->
        IF u \notin SpaUrls /\ (u \in TestUrls) = (s = SiteTest)
        THEN Settlements(u, s[u], o, SessionNetsAt(u), SessionContents)
        ELSE {}]

\* the same for the single-page crawls of the model
PageSettlementsOf ==
    [u \in {RootA, Invalid, SpaRoot}, s \in Sites \cup {SiteSpa}, o \in AllCallOptions |->
        IF (u = SpaRoot) = (s = SiteSpa) /\ (u = SpaRoot => o = CallOptions(SpaOptions))
        THEN Settlements(u, s[u], o, PageNets, PageContents)
        ELSE {}]

NoReturn == [settled |-> FALSE, threw |-> FALSE]

\* the arguments of a call of normalizeUrl(url), sanitizeLinks(links, url) or
\* getErrorType(error)
Arg(url, links, error) == [url |-> url, links |-> links, error |-> error]
NoArg == Arg(Null, << >>, NoError)

\* the paths of the URLs normalizeUrl is tried on end with up to MaxSlashes
\* slashes
MaxSlashes == 3

\* the URLs normalizeUrl is tried on: both schemes, an upper-case host, a port,
\* the root path and a longer one, every number of trailing slashes, with and
\* without query or fragment; and a string that is no URL
UrlInputs ==
    {Url(sc, h, pt, pa, ts, q) :
        sc \in {"http", "https"}, h \in {"a", "A"}, pt \in {0, 8080}, pa \in {"", "p"},
        ts \in 0..MaxSlashes, q \in BOOLEAN}
    \cup {Invalid}

\* the lists sanitizeLinks is tried on have up to MaxLinks links
MaxLinks == 2

\* the links of these lists: https://a/p, https://a/p/, https://a/p//,
\* https://A/p?x=1, /p/, mailto:x
LinkInputs ==
    {PageA, Url("https", "a", 0, "p", 1, FALSE), PageA2, Url("https", "A", 0, "p", 0, TRUE),
     Url("relative", "", 0, "p", 1, FALSE), Url("mailto", "", 0, "", 0, FALSE)}

\* sanitizeLinks(links, baseUrl)
LinksOptions ==
    {Options("links", RootA, 0, 1, 1, TRUE, "null", FALSE, "null", DefaultThreshold,
             DefaultMaxRetries)}

\* the errors the functions of errorHandler.js are tried on: every code the
\* functions name, two they do not, every combination of the words
\* getErrorType looks for in the message, no response or a response with an
\* error status
ErrorCodes ==
    {"", "CERT_HAS_EXPIRED", "UNABLE_TO_VERIFY_LEAF_SIGNATURE", "ERR_TLS_CERT_ALTNAME_INVALID",
     "SELF_SIGNED_CERT_IN_CHAIN", "DEPTH_ZERO_SELF_SIGNED_CERT", "EPROTO", "ETIMEDOUT",
     "ECONNREFUSED", "ENOTFOUND", "ERR_INVALID_URL", "ECONNRESET", "ERR_BAD_RESPONSE"}

MessageWords == {"SSL", "TLS", "timeout"}

ErrorStatuses == {0, 400, 404, 429, 500, 503}

ErrorInputs == {Err(c, m, st) : c \in ErrorCodes, m \in SUBSET MessageWords, st \in ErrorStatuses}

\* getErrorType(error), getDetailedErrorInfo(error), shouldNotRetry(error)
ClassifyOptions ==
    {Options("classify", RootA, 0, 1, 1, TRUE, "null", FALSE, "null", DefaultThreshold,
             DefaultMaxRetries)}

\* the pages the detector is tried on have up to MaxLinkCount links
MaxLinkCount == 6

\* the script counts and text lengths around the limits analyzeContent and
\* needsPuppeteer compare with: more than 10 scripts, less than 500 or 1000
\* characters, a ratio above 5 scripts per 1000 characters
ScriptCounts == {0, 5, 6, 10, 11}
TextLengths == {0, 499, 500, 999, 1000, 2400}
DetectContents ==
    {Content(m, sc, tl) : m \in {{}, {"react"}}, sc \in ScriptCounts, tl \in TextLengths}

\* n distinct absolute hrefs
DetectLinks(n) == [k \in 1..n |-> Url("https", "a", 8000 + k, "p", 0, FALSE)]

\* the pages of the grid: the URL, the anchors and the static body
DetectPages ==
    {[url |-> RootA, links |-> DetectLinks(n), error |-> NoError, content |-> c] :
        n \in 0..MaxLinkCount, c \in DetectContents}

\* crawlRequestSchema: detectionThreshold is a number from 0 to 1; in tenths
DetectThresholds == 0..10

\* intelligentCrawl(url, {detectionThreshold, emitEvent, socketId}) in auto mode
DetectOptions ==
    {Options("detect", RootA, 0, 1, 1, TRUE, "fn", TRUE, "null", th, DefaultMaxRetries) :
        th \in DetectThresholds}

\* normalizeUrl(url)
KeyOptions ==
    {Options("key", RootA, 0, 1, 1, TRUE, "null", FALSE, "null", DefaultThreshold,
             DefaultMaxRetries)}

\* the activation record of intelligentCrawlBatch(urls, {concurrency}):
\*   i        the loop variable
\*   at       "idle", "all" (await Promise.all), "pause" (await the timeout),
\*            "returned", "threw"
\*   slots    the promises handed to Promise.all, one per URL of the batch
\*   results  const results = []
\*   started  per intelligentCrawl call, in the order of the calls: the input it
\*            is for, its batch, the calls in flight when it starts and the
\*            pause that elapsed since the batch before it
BatchFrame(urls, concurrency) ==
    [urls |-> urls, concurrency |-> concurrency, i |-> 0, at |-> "idle",
     slots |-> << >>, results |-> << >>, started |-> << >>]

\* the value of a promise that has not settled
NoBatchResult == [url |-> Null, success |-> FALSE, method |-> ""]

Init ==
    /\ opts \in SingleOptions \cup {SpaOptions} \cup RecursiveOptions \cup FetchOptions \cup BrowseOptions
               \cup BatchOptions \cup KeyOptions \cup LinksOptions \cup ClassifyOptions
               \cup DetectOptions
    /\ arg \in CASE opts.mode = "key" -> {Arg(u, << >>, NoError) : u \in UrlInputs}
                  [] opts.mode = "links" ->
                        {Arg(u, l, NoError) :
                            u \in {RootA, Invalid},
                            l \in UNION {Seqs(LinkInputs, n) : n \in 0..MaxLinks}}
                  [] opts.mode = "classify" -> {Arg(Null, << >>, e) : e \in ErrorInputs}
                  [] OTHER -> {NoArg}
    /\ site \in Sites \cup {SiteTest, SiteSpa}
    /\ (site = SiteTest) = (opts = SiteTestOptions)
    /\ (site = SiteSpa) = (opts = SpaOptions)
    /\ opts.mode \in {"fetch", "browse", "batch", "key", "links", "classify", "detect"} => site = SiteMain
    /\ pc = "idle"
    /\ tasks = << >>
    /\ visitedUrls = {}
    /\ results = << >>
    /\ maxDepthReached = 0
    /\ currentDepthLevel = 0
    /\ linkEmitCounter = 0
    /\ events = << >>
    /\ inFlight = 0
    /\ crawlCalls = 0
    /\ delaysSinceCall = 0
    /\ callLog = << >>
    /\ scopeLog = {}
    /\ cancelRequested = FALSE
    /\ browsing = << >>
    /\ browsers = << >>
    /\ batch = BatchFrame(<< >>, 0)
    /\ returned = NoReturn

TheSink == [emitEvent |-> opts.emitEvent, socketId |-> opts.socketId]

crawlOptionsWithSink(o) ==
    [forceMethod |-> o.forceMethod, detectionThreshold |-> o.detectionThreshold,
     emitEvent |-> o.emitEvent, socketId |-> o.socketId]

\* recursiveCrawl, lines 322-332: ...crawlOptions is what is left of the options
\* after socketId and emitEvent (and the limits) are taken out
crawlOptions(o) ==
    [forceMethod |-> o.forceMethod, detectionThreshold |-> o.detectionThreshold,
     emitEvent |-> "null", socketId |-> FALSE]

\* recursiveCrawl, line 336
baseUrl == extractBaseDomain(opts.startUrl)

\* an activation record of crawlRecursive(url, currentDepth)
Frame(url, depth) ==
    [url |-> url, depth |-> depth, pc |-> "enter", normalizedUrl |-> normalizeUrl(url),
     childLinks |-> << >>, i |-> 1]

Top(t) == tasks[t][Len(tasks[t])]
Pop(t) == [tasks EXCEPT ![t] = SubSeq(tasks[t], 1, Len(tasks[t]) - 1)]
SetTop(t, f) == [tasks EXCEPT ![t][Len(tasks[t])] = f]

\* the activation record on top of chain t is at position p
At(t, p) == pc = "running" /\ tasks[t] # << >> /\ Top(t).pc = p

\* recursiveCrawl, line 326: delayMs = 1500
DelayMs == 1500

\* what the log keeps of a call of intelligentCrawl: the calls in flight and
\* the delay(delayMs) waits completed when it starts, the length of each of
\* these waits, and, once it has settled, whether the server answered its
\* first GET with HTTP 429
CallRecord(calls, delays) ==
    [inFlight |-> calls, delays |-> delays, delayMs |-> IF delays = 0 THEN 0 ELSE DelayMs,
     rateLimited |-> FALSE]

(* ---- the functions of urlValidator.js ---- *)

\* a caller calls normalizeUrl(url) and gets the key
NormalizeCall ==
    /\ pc = "idle" /\ opts.mode = "key"
    /\ pc' = "done"
    /\ returned' = [settled |-> TRUE, threw |-> FALSE, key |-> normalizeUrl(arg.url)]
    /\ UNCHANGED << batch, browsing, browsers, cancelRequested, opts, arg, site, tasks,
                    visitedUrls, results, maxDepthReached, currentDepthLevel,
                    linkEmitCounter, events, inFlight, crawlCalls, delaysSinceCall,
                    callLog, scopeLog >>

\* a caller calls sanitizeLinks(links, baseUrl) and gets the list
SanitizeCall ==
    /\ pc = "idle" /\ opts.mode = "links"
    /\ pc' = "done"
    /\ returned' = [settled |-> TRUE, threw |-> FALSE,
                    links |-> sanitizeLinks(arg.links, arg.url)]
    /\ UNCHANGED << batch, browsing, browsers, cancelRequested, opts, arg, site, tasks,
                    visitedUrls, results, maxDepthReached, currentDepthLevel,
                    linkEmitCounter, events, inFlight, crawlCalls, delaysSinceCall,
                    callLog, scopeLog >>

(* ---- the functions of errorHandler.js ---- *)

\* a caller classifies an error: getErrorType(error),
\* getDetailedErrorInfo(error) and shouldNotRetry(error)
ClassifyCall ==
    /\ pc = "idle" /\ opts.mode = "classify"
    /\ pc' = "done"
    /\ returned' = [settled |-> TRUE, threw |-> FALSE,
                    errorType |-> getErrorType(arg.error),
                    errorInfo |-> getDetailedErrorInfo(arg.error),
                    noRetry |-> shouldNotRetry(arg.error)]
    /\ UNCHANGED << batch, browsing, browsers, cancelRequested, opts, arg, site, tasks,
                    visitedUrls, results, maxDepthReached, currentDepthLevel,
                    linkEmitCounter, events, inFlight, crawlCalls, delaysSinceCall,
                    callLog, scopeLog >>

(* ---- the detector in auto mode ---- *)

\* the page of the call is one of the grid: the server answers 200, the
\* static body is page.content and holds the anchors page.links, the browser
\* works
DetectWorld(page) == World(page.links, "ok", NetOk, page.content, "ok", "ok", NavigationError)

\* what crawlWithAxios returns for it, and what needsPuppeteer says of that
DetectStatic(page) == crawlWithAxios(page.url, DefaultMaxRetries, DetectWorld(page)).value
DetectVerdict(page) == needsPuppeteer(DetectStatic(page).content, DetectStatic(page).links)

\* the caller gets run; detection is the verdict of the detector on the page
DetectSettled(run, detection) ==
    /\ events' = events \o Emitted(run.events)
    /\ returned' = [settled |-> TRUE, threw |-> run.threw, result |-> run.result,
                    axiosCalls |-> run.axiosCalls, pupCalls |-> run.pupCalls,
                    detectorCalls |-> run.detectorCalls, detection |-> detection]

\* the page at the URL the caller is about to crawl is one of the grid
DetectPage ==
    /\ pc = "idle" /\ opts.mode = "detect" /\ arg = NoArg
    /\ arg' \in DetectPages
    /\ UNCHANGED << batch, browsing, browsers, cancelRequested, opts, site, pc, tasks,
                    visitedUrls, results, maxDepthReached, currentDepthLevel,
                    linkEmitCounter, events, inFlight, crawlCalls, delaysSinceCall,
                    callLog, scopeLog, returned >>

\* how intelligentCrawl settles on every page of the grid under every
\* threshold, and the verdict of the detector on the page
DetectSettlementsOf ==
    [page \in DetectPages, o \in DetectOptions |->
        [run |-> intelligentCrawl(page.url, CallOptions(o), DetectWorld(page)),
         detection |-> DetectVerdict(page)]]

\* a caller awaits intelligentCrawl(url, options) on the page
DetectCall ==
    /\ pc = "idle" /\ opts.mode = "detect" /\ arg # NoArg
    /\ pc' = "done"
    /\ DetectSettled(DetectSettlementsOf[arg, opts].run, DetectSettlementsOf[arg, opts].detection)
    /\ UNCHANGED << batch, browsing, browsers, cancelRequested, opts, arg, site, tasks,
                    visitedUrls, results, maxDepthReached, currentDepthLevel,
                    linkEmitCounter, inFlight, crawlCalls, delaysSinceCall,
                    callLog, scopeLog >>

(* ---- the static fetcher alone ---- *)

\* the caller awaits fetchWithRetry(url, maxRetries)
FetchCall ==
    /\ pc = "idle" /\ opts.mode = "fetch"
    /\ pc' = "running"
    /\ UNCHANGED << batch, browsing, browsers, cancelRequested, opts, arg, site, tasks, visitedUrls, results, maxDepthReached, currentDepthLevel,
                    linkEmitCounter, events, inFlight, crawlCalls, delaysSinceCall, callLog,
                    scopeLog, returned >>

\* the answers fetchWithRetry does not ask for have one value (every behaviour
\* of the server appears once)
FetchCanonical(f, net) ==
    /\ \A k \in 1..MaxRetriesBound :
          (\A i \in DOMAIN f.log : ~(f.log[i].op = "strict" /\ f.log[i].attempt = k)) =>
              net.strict[k] = Responds(200)
    /\ (\A i \in DOMAIN f.log : f.log[i].op # "legacy") => net.legacy = Responds(200)

\* what the caller gets when fetchWithRetry settled with f
FetchSettled(f, net) ==
    [settled |-> TRUE, threw |-> f.threw, status |-> f.status, error |-> f.error,
     log |-> f.log, net |-> net]

\* the ways fetchWithRetry(url, n) can settle, for every n of the model
FetchSettlementsOf ==
    [n \in 0..MaxRetriesBound |->
        {FetchSettled(fetchWithRetry(net, n), net) :
            net \in {v \in FetchNets : FetchCanonical(fetchWithRetry(v, n), v)}}]

\* fetchWithRetry settles, on some server
FetchReturn ==
    /\ pc = "running" /\ opts.mode = "fetch"
    /\ \E x \in FetchSettlementsOf[opts.maxRetries] : returned' = x
    /\ pc' = "done"
    /\ UNCHANGED << batch, browsing, browsers, cancelRequested, opts, arg, site, tasks, visitedUrls, results, maxDepthReached, currentDepthLevel,
                    linkEmitCounter, events, inFlight, crawlCalls, delaysSinceCall, callLog,
                    scopeLog >>

(* ---- the dynamic fetcher alone ---- *)

\* the options of crawlWithPuppeteer that decide which steps it takes
PuppeteerOptions(blockResources, autoScrollEnabled, screenshot) ==
    [blockResources |-> blockResources, autoScrollEnabled |-> autoScrollEnabled,
     screenshot |-> screenshot]

\* the defaults (lines 173-175), everything enabled, nothing enabled
PuppeteerOptionsTried ==
    {PuppeteerOptions(TRUE, FALSE, FALSE), PuppeteerOptions(TRUE, TRUE, TRUE),
     PuppeteerOptions(FALSE, FALSE, FALSE)}

\* an activation record of crawlWithPuppeteer: the await it is at, its local
\* `let browser` (0: undefined), whether the catch block ran, how it settled
PuppeteerFrame(o) ==
    [options |-> o, at |-> "launch", browser |-> 0, failed |-> FALSE, outcome |-> "pending"]

\* a browser process: the call that launched it, the calls that used it, the
\* number of browser.close() calls on it, whether it runs
Browser(owner) == [owner |-> owner, users |-> {}, closeCalls |-> 0, state |-> "open"]

\* crawlWithPuppeteer, lines 186-241: the await that follows the await `at` in
\* the try block; "finally" after the return statement
NextAwait(at, o) ==
    CASE at = "launch" -> "newPage"
      [] at = "newPage" -> "setUserAgent"
      [] at = "setUserAgent" -> "setViewport"
      [] at = "setViewport" -> IF o.blockResources THEN "setRequestInterception" ELSE "goto"
      [] at = "setRequestInterception" -> "goto"
      [] at = "goto" -> IF o.autoScrollEnabled THEN "autoScroll" ELSE "extractPageData"
      [] at = "autoScroll" -> "extractPageData"
      [] at = "extractPageData" -> IF o.screenshot THEN "screenshot" ELSE "finally"
      [] at = "screenshot" -> "finally"

\* the awaits on the page of the launched browser
PageAwaits ==
    {"newPage", "setUserAgent", "setViewport", "setRequestInterception", "goto", "autoScroll",
     "extractPageData", "screenshot"}

\* the calls of crawlWithPuppeteer the model follows at a time
MaxBrowserCalls == 2

\* a caller calls crawlWithPuppeteer(url, options), at any time after the
\* calls before it are past their launch; the callers of a run pass the same
\* options
PuppeteerCall ==
    /\ opts.mode = "browse" /\ pc \in {"idle", "running"}
    /\ Len(browsing) < MaxBrowserCalls
    /\ \A k \in DOMAIN browsing : browsing[k].at # "launch"
    /\ \E o \in PuppeteerOptionsTried :
         /\ browsing # << >> => o = browsing[1].options
         /\ browsing' = Append(browsing, PuppeteerFrame(o))
    /\ pc' = "running"
    /\ UNCHANGED << batch, browsers, cancelRequested, opts, arg, site, tasks, visitedUrls, results,
                    maxDepthReached, currentDepthLevel, linkEmitCounter, events, inFlight,
                    crawlCalls, delaysSinceCall, callLog, scopeLog, returned >>

\* crawlWithPuppeteer, line 186: createBrowserInstance settles; puppeteer.launch
\* gives a new browser, or rejects and the catch block runs
Launch(k) ==
    /\ pc = "running" /\ browsing[k].at = "launch"
    /\ \/ /\ browsers' = Append(browsers, Browser(k))
          /\ browsing' = [browsing EXCEPT ![k].browser = Len(browsers) + 1,
                                          ![k].at = NextAwait("launch", browsing[k].options)]
       \/ /\ browsing' = [browsing EXCEPT ![k].failed = TRUE, ![k].at = "finally"]
          /\ UNCHANGED browsers
    /\ UNCHANGED << batch, cancelRequested, opts, arg, site, pc, tasks, visitedUrls, results,
                    maxDepthReached, currentDepthLevel, linkEmitCounter, events, inFlight,
                    crawlCalls, delaysSinceCall, callLog, scopeLog, returned >>

\* crawlWithPuppeteer, lines 187-241: an await on the page settles; it resolves,
\* or rejects and the catch block runs
PageAwait(k) ==
    /\ pc = "running" /\ browsing[k].at \in PageAwaits
    /\ browsers' = [browsers EXCEPT ![browsing[k].browser].users = @ \cup {k}]
    /\ \/ browsing' = [browsing EXCEPT ![k].at = NextAwait(browsing[k].at, browsing[k].options)]
       \/ browsing' = [browsing EXCEPT ![k].failed = TRUE, ![k].at = "finally"]
    /\ UNCHANGED << batch, cancelRequested, opts, arg, site, pc, tasks, visitedUrls, results,
                    maxDepthReached, currentDepthLevel, linkEmitCounter, events, inFlight,
                    crawlCalls, delaysSinceCall, callLog, scopeLog, returned >>

FinallyClosesAfterSuccess(c) == c.browser # 0 /\ ~c.failed

\* crawlWithPuppeteer, line 265: if (browser)
FinallyCloses(c) == c.browser # 0

\* crawlWithPuppeteer, lines 264-269: the finally block; browser.close()
\* resolves, or rejects and the call throws what it rejects with
Finally(k) ==
    /\ pc = "running" /\ browsing[k].at = "finally"
    /\ IF FinallyCloses(browsing[k])
       THEN \/ /\ browsers' = [browsers EXCEPT ![browsing[k].browser].closeCalls = @ + 1,
                                                ![browsing[k].browser].state = "closed"]
               /\ browsing' = [browsing EXCEPT
                                  ![k].at = "settled",
                                  ![k].outcome = IF browsing[k].failed THEN "failure" ELSE "success"]
            \/ /\ browsers' = [browsers EXCEPT ![browsing[k].browser].closeCalls = @ + 1]
               /\ browsing' = [browsing EXCEPT ![k].at = "settled", ![k].outcome = "threw"]
       ELSE /\ browsing' = [browsing EXCEPT
                               ![k].at = "settled",
                               ![k].outcome = IF browsing[k].failed THEN "failure" ELSE "success"]
            /\ UNCHANGED browsers
    /\ UNCHANGED << batch, cancelRequested, opts, arg, site, pc, tasks, visitedUrls, results,
                    maxDepthReached, currentDepthLevel, linkEmitCounter, events, inFlight,
                    crawlCalls, delaysSinceCall, callLog, scopeLog, returned >>

\* every call has settled and the callers make no other
BrowseDone ==
    /\ pc = "running" /\ opts.mode = "browse"
    /\ \A k \in DOMAIN browsing : browsing[k].at = "settled"
    /\ pc' = "done"
    /\ returned' = [settled |-> TRUE, threw |-> FALSE]
    /\ UNCHANGED << batch, browsing, browsers, cancelRequested, opts, arg, site, tasks, visitedUrls,
                    results, maxDepthReached, currentDepthLevel, linkEmitCounter, events,
                    inFlight, crawlCalls, delaysSinceCall, callLog, scopeLog >>

(* ---- batch crawl ---- *)

\* options.concurrency ranges over 0..MaxConcurrency
MaxConcurrency == 2
\* urls has up to MaxBatchUrls entries
MaxBatchUrls == 3

\* the k-th URL of the lists the batch crawl is tried on: a page, then a string
\* that is no URL, in turn
BatchUrlAt(k) == IF k % 2 = 1 THEN RootA ELSE Invalid
BatchUrlLists == {[k \in 1..n |-> BatchUrlAt(k)] : n \in 0..MaxBatchUrls}

\* setTimeout(resolve, 1000)
BatchPauseMs == 1000

\* the promise of intelligentCrawl(urls[input]): pending
Slot(input) == [input |-> input, settled |-> FALSE, order |-> 0, result |-> NoBatchResult]

\* urls.slice(i, i + concurrency), as positions of urls (from 1)
Slice(b, i) == [j \in 1..Max(0, Min(i + b.concurrency, Len(b.urls)) - i) |-> i + j]

\* intelligentCrawlBatch, lines 264-268: the loop body up to the await; the
\* calls of batch.map start one after the other
StartBatch(b, i, pausedMs) ==
    [b EXCEPT !.i = i, !.at = "all",
              !.slots = [j \in DOMAIN Slice(b, i) |-> Slot(Slice(b, i)[j])],
              !.started = b.started \o
                  [j \in DOMAIN Slice(b, i) |->
                      [input |-> Slice(b, i)[j], batchNo |-> (i \div b.concurrency) + 1,
                       inFlight |-> j - 1, pausedMs |-> pausedMs]]]

\* what the batch keeps of a result of intelligentCrawl, for the summary
BatchResult(result) == [url |-> result.url, success |-> result.success, method |-> result.method]

\* the value Promise.all resolves with, were it in the order the promises settle
InSettleOrder(slots) ==
    [n \in DOMAIN slots |->
        [input |-> slots[CHOOSE j \in DOMAIN slots : slots[j].order = n].input,
         order |-> n,
         result |-> slots[CHOOSE j \in DOMAIN slots : slots[j].order = n].result]]

\* the value Promise.all resolves with: the values of the promises, in the
\* order of the promises
PromiseAll(slots) ==
    [j \in DOMAIN slots |->
        [input |-> slots[j].input, order |-> slots[j].order, result |-> slots[j].result]]

\* intelligentCrawlBatch, lines 257-268: the call, up to the first await (or to
\* the return, for an empty list)
BatchCall ==
    /\ pc = "idle" /\ opts.mode = "batch"
    /\ \E urls \in BatchUrlLists, concurrency \in 0..MaxConcurrency :
         IF urls = << >>
         THEN /\ batch' = [BatchFrame(urls, concurrency) EXCEPT !.at = "returned"]
              /\ pc' = "done"
              /\ returned' = [settled |-> TRUE, threw |-> FALSE, results |-> << >>]
              /\ UNCHANGED << inFlight, crawlCalls >>
         ELSE /\ batch' = StartBatch(BatchFrame(urls, concurrency), 0, 0)
              /\ pc' = "running"
              /\ inFlight' = inFlight + Len(Slice(BatchFrame(urls, concurrency), 0))
              /\ crawlCalls' = crawlCalls + Len(Slice(BatchFrame(urls, concurrency), 0))
              /\ UNCHANGED returned
    /\ UNCHANGED << browsing, browsers, cancelRequested, opts, arg, site, tasks, visitedUrls,
                    results, maxDepthReached, currentDepthLevel, linkEmitCounter, events,
                    delaysSinceCall, callLog, scopeLog >>

\* the number of promises of the batch that have settled
SettledSlots == Cardinality({j \in DOMAIN batch.slots : batch.slots[j].settled})

\* one intelligentCrawl call of the batch settles; were it to throw, Promise.all
\* would reject and intelligentCrawlBatch throw
BatchCrawlReturn(j) ==
    /\ pc = "running" /\ batch.at = "all" /\ ~batch.slots[j].settled
    /\ inFlight' = inFlight - 1
    /\ \E x \in PageSettlementsOf[batch.urls[batch.slots[j].input], site, CallOptions(opts)] :
         IF x.run.threw
         THEN /\ batch' = [batch EXCEPT !.at = "threw"]
              /\ pc' = "done"
              /\ returned' = [settled |-> TRUE, threw |-> TRUE, results |-> << >>]
         ELSE /\ batch' = [batch EXCEPT !.slots[j].settled = TRUE,
                                        !.slots[j].order = SettledSlots + 1,
                                        !.slots[j].result = BatchResult(x.run.result)]
              /\ UNCHANGED << pc, returned >>
    /\ UNCHANGED << browsing, browsers, cancelRequested, opts, arg, site, tasks, visitedUrls,
                    results, maxDepthReached, currentDepthLevel, linkEmitCounter, events,
                    crawlCalls, delaysSinceCall, callLog, scopeLog >>

\* intelligentCrawlBatch, lines 266-284: `await Promise.all(...)` resumes; the
\* results are pushed, then the pause starts or the call returns
AllSettled ==
    /\ pc = "running" /\ batch.at = "all"
    /\ \A j \in DOMAIN batch.slots : batch.slots[j].settled
    /\ IF batch.i + batch.concurrency < Len(batch.urls)
       THEN /\ batch' = [batch EXCEPT !.results = @ \o PromiseAll(batch.slots), !.at = "pause"]
            /\ UNCHANGED << pc, returned >>
       ELSE /\ batch' = [batch EXCEPT !.results = @ \o PromiseAll(batch.slots),
                                      !.i = @ + batch.concurrency, !.at = "returned"]
            /\ pc' = "done"
            /\ returned' = [settled |-> TRUE, threw |-> FALSE,
                            results |-> batch.results \o PromiseAll(batch.slots)]
    /\ UNCHANGED << browsing, browsers, cancelRequested, opts, arg, site, tasks, visitedUrls,
                    results, maxDepthReached, currentDepthLevel, linkEmitCounter, events,
                    inFlight, crawlCalls, delaysSinceCall, callLog, scopeLog >>

\* intelligentCrawlBatch, lines 264-274: the timeout has elapsed; i += concurrency
\* and the next batch starts
PauseElapsed ==
    /\ pc = "running" /\ batch.at = "pause"
    /\ batch' = StartBatch(batch, batch.i + batch.concurrency, BatchPauseMs)
    /\ inFlight' = inFlight + Len(Slice(batch, batch.i + batch.concurrency))
    /\ crawlCalls' = crawlCalls + Len(Slice(batch, batch.i + batch.concurrency))
    /\ UNCHANGED << browsing, browsers, cancelRequested, opts, arg, site, pc, tasks, visitedUrls,
                    results, maxDepthReached, currentDepthLevel, linkEmitCounter, events,
                    delaysSinceCall, callLog, scopeLog, returned >>

(* ---- single-page crawl ---- *)

\* the caller awaits intelligentCrawl(url, options)
SingleCall ==
    /\ pc = "idle" /\ opts.mode = "single"
    /\ pc' = "running"
    /\ inFlight' = inFlight + 1
    /\ crawlCalls' = crawlCalls + 1
    /\ callLog' = Append(callLog, CallRecord(inFlight, delaysSinceCall))
    /\ UNCHANGED << batch, browsing, browsers, cancelRequested, opts, arg, site, tasks, visitedUrls, results, maxDepthReached, currentDepthLevel,
                    linkEmitCounter, events, delaysSinceCall, scopeLog, returned >>

\* the caller gets run
SingleSettled(run, w) ==
    /\ events' = events \o Emitted(run.events)
    /\ returned' = [settled |-> TRUE, threw |-> run.threw, result |-> run.result,
                    axiosCalls |-> run.axiosCalls, pupCalls |-> run.pupCalls,
                    detectorCalls |-> run.detectorCalls, world |-> w, trace |-> run.events]

\* intelligentCrawl settles
SingleReturn ==
    /\ pc = "running" /\ opts.mode = "single"
    /\ \E x \in PageSettlementsOf[opts.startUrl, site, CallOptions(opts)] :
         SingleSettled(x.run, x.world)
    /\ pc' = "done"
    /\ inFlight' = inFlight - 1
    /\ UNCHANGED << batch, browsing, browsers, cancelRequested, opts, arg, site, tasks, visitedUrls, results, maxDepthReached,
                    currentDepthLevel, linkEmitCounter, crawlCalls, delaysSinceCall,
                    callLog, scopeLog >>

(* ---- recursive crawl ---- *)

\* Math.round((n / m) * 100)
RoundPercent(n, m) == (200 * n + m) \div (2 * m)

RECURSIVE CountDepth(_, _)
\* results.filter(r => r.depth === d).length
CountDepth(rs, d) ==
    IF rs = << >> THEN 0
    ELSE (IF Head(rs).depth = d THEN 1 ELSE 0) + CountDepth(Tail(rs), d)

RECURSIVE SumLinks(_)
\* successfulResults.reduce((sum, r) => sum + (r.links?.length || 0), 0)
SumLinks(rs) ==
    IF rs = << >> THEN 0
    ELSE (IF Head(rs).success THEN Len(Head(rs).links) ELSE 0) + SumLinks(Tail(rs))

RECURSIVE EmitLinkFoundPerPage(_, _, _, _, _)
\* EmitLinkFound with a counter that starts again on every page
EmitLinkFoundPerPage(es, childLinks, counter, source, depth) ==
    IF childLinks = << >> THEN es
    ELSE EmitLinkFoundPerPage(
            IF ((counter % opts.childLinksPerPage) + 1) % 5 = 0
            THEN safeEmit(TheSink, es,
                          [type |-> "crawl:link-found", url |-> Head(childLinks),
                           sourceUrl |-> source, depth |-> depth + 1, linkCount |-> counter + 1])
            ELSE es,
            Tail(childLinks), counter + 1, source, depth)

RECURSIVE EmitLinkFound(_, _, _, _, _)
\* crawlRecursive, lines 461-472: every 5th selected link is announced
EmitLinkFound(es, childLinks, counter, source, depth) ==
    IF childLinks = << >> THEN es
    ELSE EmitLinkFound(
            IF (counter + 1) % 5 = 0
            THEN safeEmit(TheSink, es,
                          [type |-> "crawl:link-found", url |-> Head(childLinks),
                           sourceUrl |-> source, depth |-> depth + 1, linkCount |-> counter + 1])
            ELSE es,
            Tail(childLinks), counter + 1, source, depth)

TakeOneLess(s, n) == SubSeq(s, 1, Min(n - 1, Len(s)))

\* links.slice(0, n)
Take(s, n) == SubSeq(s, 1, Min(n, Len(s)))

\* crawlRecursive, lines 449-455: the child links of a crawled page
SelectChildLinks(links, visited) ==
    LET Fresh(link) == normalizeUrl(link) # Null /\ normalizeUrl(link) \notin visited
        InScope(link) == ~opts.sameDomainOnly \/ isSameDomain(link, baseUrl)
    IN Take(SelectSeq(SelectSeq(links, Fresh), InScope), opts.childLinksPerPage)

\* the links the second filter (line 454) looked at
ScopeChecked(links, visited) ==
    IF ~opts.sameDomainOnly THEN {}
    ELSE {[url |-> links[k], admitted |-> isSameDomain(links[k], baseUrl)] :
            k \in {j \in 1..Len(links) :
                     normalizeUrl(links[j]) # Null /\ normalizeUrl(links[j]) \notin visited}}

\* recursiveCrawl, lines 321-357 and 513-515: up to the first crawlRecursive call
StartRecursive ==
    /\ pc = "idle" /\ opts.mode = "recursive"
    /\ pc' = "running"
    /\ events' = safeEmit(TheSink, events,
                          [type |-> "crawl:start", startUrl |-> opts.startUrl,
                           maxDepth |-> opts.maxDepth, crawlType |-> "recursive"])
    /\ tasks' = << << Frame(opts.startUrl, 0) >> >>
    /\ UNCHANGED << batch, browsing, browsers, cancelRequested, opts, arg, site, visitedUrls, results, maxDepthReached, currentDepthLevel,
                    linkEmitCounter, inFlight, crawlCalls, delaysSinceCall, callLog,
                    scopeLog, returned >>

PageLimitOffByOne == Cardinality(visitedUrls) > opts.maxPages

PageLimitIgnored == FALSE

\* crawlRecursive, lines 377 and 476: visitedUrls.size >= maxPages
PageLimitReached == Cardinality(visitedUrls) >= opts.maxPages

\* crawlRecursive, lines 370-398: one of the checks sends the call back
Rejected(f) ==
    \/ f.depth > opts.maxDepth
    \/ PageLimitReached
    \/ f.normalizedUrl = Null
    \/ f.normalizedUrl \in visitedUrls
    \/ (opts.sameDomainOnly /\ ~isSameDomain(f.url, baseUrl))

\* the same-domain check of line 395 is reached
ReachesScopeCheck(f) ==
    /\ f.depth <= opts.maxDepth
    /\ ~PageLimitReached
    /\ f.normalizedUrl # Null
    /\ f.normalizedUrl \notin visitedUrls
    /\ opts.sameDomainOnly

\* crawlRecursive, lines 405-413: crawl:depth-change when the depth differs
\* DepthChange that reports a deeper level only
DepthChangeWhenDeeper(f, es) ==
    IF f.depth > currentDepthLevel
    THEN safeEmit(TheSink, es,
                  [type |-> "crawl:depth-change", currentDepth |-> f.depth,
                   maxDepth |-> opts.maxDepth,
                   pagesAtThisDepth |-> CountDepth(results, f.depth) + 1])
    ELSE es

DepthChange(f, es) ==
    IF f.depth # currentDepthLevel
    THEN safeEmit(TheSink, es,
                  [type |-> "crawl:depth-change", currentDepth |-> f.depth,
                   maxDepth |-> opts.maxDepth,
                   pagesAtThisDepth |-> CountDepth(results, f.depth) + 1])
    ELSE es

\* crawlRecursive, lines 420-427: crawl:progress
Progress(f, es, size) ==
    safeEmit(TheSink, es,
             [type |-> "crawl:progress",
              percentage |-> Min(100, RoundPercent(size, opts.maxPages)),
              pagesProcessed |-> size, totalEstimate |-> opts.maxPages,
              currentUrl |-> f.normalizedUrl])

\* crawlRecursive, lines 370-427: the checks, then visited, depth-change, progress
Enter(t) ==
    /\ At(t, "enter")
    /\ scopeLog' = IF ReachesScopeCheck(Top(t))
                   THEN scopeLog \cup {[url |-> Top(t).url,
                                        admitted |-> isSameDomain(Top(t).url, baseUrl)]}
                   ELSE scopeLog
    /\ IF Rejected(Top(t))
       THEN /\ tasks' = Pop(t)
            /\ UNCHANGED << visitedUrls, maxDepthReached, currentDepthLevel, events >>
       ELSE /\ visitedUrls' = visitedUrls \cup {Top(t).normalizedUrl}
            /\ maxDepthReached' = Max(maxDepthReached, Top(t).depth)
            /\ currentDepthLevel' = Top(t).depth
            /\ events' = Progress(Top(t), DepthChange(Top(t), events),
                                  Cardinality(visitedUrls) + 1)
            /\ tasks' = SetTop(t, [Top(t) EXCEPT !.pc = "call"])
    /\ UNCHANGED << batch, browsing, browsers, cancelRequested, opts, arg, site, pc, results, linkEmitCounter, inFlight, crawlCalls,
                    delaysSinceCall, callLog, returned >>

\* crawlRecursive, line 431: intelligentCrawl(url, {...crawlOptions, verbose: false}) starts
CrawlOneCall(t) ==
    /\ At(t, "call")
    /\ tasks' = SetTop(t, [Top(t) EXCEPT !.pc = "await"])
    /\ inFlight' = inFlight + 1
    /\ crawlCalls' = crawlCalls + 1
    /\ callLog' = Append(callLog, CallRecord(inFlight, delaysSinceCall))
    /\ delaysSinceCall' = 0
    /\ UNCHANGED << batch, browsing, browsers, cancelRequested, opts, arg, site, pc, visitedUrls, results, maxDepthReached, currentDepthLevel,
                    linkEmitCounter, events, scopeLog, returned >>

EntryDepthFromOne(result, depth) ==
    [success |-> result.success, method |-> result.method, url |-> result.url,
     links |-> result.links, errorType |-> result.errorType, depth |-> depth + 1]

\* crawlRecursive, lines 437-441: results.push({...result, depth: currentDepth, ...})
Entry(result, depth) ==
    [success |-> result.success, method |-> result.method, url |-> result.url,
     links |-> result.links, errorType |-> result.errorType, depth |-> depth]

\* crawlRecursive, lines 447-483: a successful page above the depth limit gets
\* its child links selected and announced; otherwise the call returns
Follow(t, result, childLinks, es0) ==
    IF result.success /\ Top(t).depth < opts.maxDepth
    THEN /\ linkEmitCounter' = linkEmitCounter + Len(childLinks)
         /\ events' = EmitLinkFound(es0, childLinks, linkEmitCounter,
                                    Top(t).normalizedUrl, Top(t).depth)
         /\ scopeLog' = scopeLog \cup ScopeChecked(result.links, visitedUrls)
         /\ tasks' = SetTop(t, [Top(t) EXCEPT !.pc = "loop", !.childLinks = childLinks])
    ELSE /\ events' = es0
         /\ tasks' = Pop(t)
         /\ UNCHANGED << linkEmitCounter, scopeLog >>

\* a crawlRecursive that records only the pages crawled with success
SettledSuccessOnly(t, run) ==
    IF run.threw
    THEN /\ events' = safeEmit(TheSink, events \o Emitted(run.events),
                               CrawlError(Top(t).normalizedUrl, run.result.errorType, FALSE,
                                          Top(t).depth))
         /\ tasks' = Pop(t)
         /\ UNCHANGED << results, linkEmitCounter, scopeLog >>
    ELSE /\ results' = IF run.result.success
                       THEN Append(results, Entry(run.result, Top(t).depth))
                       ELSE results
         /\ Follow(t, run.result, SelectChildLinks(run.result.links, visitedUrls),
                   events \o Emitted(run.events))

\* crawlRecursive, lines 431-472 and 485-510: the awaited call has settled (of a
\* call that throws, run.result.errorType is getErrorType of what it throws)
Settled(t, run) ==
    IF run.threw
    THEN /\ events' = safeEmit(TheSink, events \o Emitted(run.events),
                               CrawlError(Top(t).normalizedUrl, run.result.errorType, FALSE,
                                          Top(t).depth))
         /\ results' = Append(results,
                              Entry(Result(FALSE, "", Top(t).normalizedUrl, << >>,
                                           run.result.errorType, {}, -1, ""),
                                    Top(t).depth))
         /\ tasks' = Pop(t)
         /\ UNCHANGED << linkEmitCounter, scopeLog >>
    ELSE /\ results' = Append(results, Entry(run.result, Top(t).depth))
         /\ Follow(t, run.result, SelectChildLinks(run.result.links, visitedUrls),
                   events \o Emitted(run.events))

\* crawlRecursive, line 431: `await intelligentCrawl(...)` resumes
CrawlOneReturn(t) ==
    /\ At(t, "await")
    /\ inFlight' = inFlight - 1
    /\ \E x \in SettlementsOf[Top(t).url, site, crawlOptions(opts)] :
         /\ Settled(t, x.run)
         /\ callLog' = [callLog EXCEPT ![Len(callLog)].rateLimited =
                            (AxiosGet(x.world.net.strict[1]).status = 429)]
    /\ UNCHANGED << batch, browsing, browsers, cancelRequested, opts, arg, site, pc, visitedUrls, maxDepthReached, currentDepthLevel,
                    crawlCalls, delaysSinceCall, returned >>

LoopHeadWithoutLimit(t) ==
    /\ At(t, "loop")
    /\ IF Top(t).i > Len(Top(t).childLinks)
       THEN tasks' = Pop(t)
       ELSE tasks' = SetTop(t, [Top(t) EXCEPT !.pc = "delay"])
    /\ UNCHANGED << batch, browsing, browsers, cancelRequested, opts, arg, site, pc, visitedUrls, results,
                    maxDepthReached, currentDepthLevel, linkEmitCounter, events, inFlight,
                    crawlCalls, delaysSinceCall, callLog, scopeLog, returned >>

\* crawlRecursive, lines 475-476: the loop head; the call returns when the links
\* are used up or the page limit is reached
LoopHead(t) ==
    /\ At(t, "loop")
    /\ IF Top(t).i > Len(Top(t).childLinks) \/ PageLimitReached
       THEN tasks' = Pop(t)
       ELSE tasks' = SetTop(t, [Top(t) EXCEPT !.pc = "delay"])
    /\ UNCHANGED << batch, browsing, browsers, cancelRequested, opts, arg, site, pc, visitedUrls, results, maxDepthReached, currentDepthLevel,
                    linkEmitCounter, events, inFlight, crawlCalls, delaysSinceCall,
                    callLog, scopeLog, returned >>

\* the child call of the loop, were it not awaited (as the batch crawl does
\* with Promise.all): a call chain of its own, and the loop goes on
ChildNotAwaited(t) ==
    /\ At(t, "delay")
    /\ delaysSinceCall' = delaysSinceCall + 1
    /\ tasks' = Append(SetTop(t, [Top(t) EXCEPT !.pc = "loop", !.i = Top(t).i + 1]),
                       << Frame(Top(t).childLinks[Top(t).i], Top(t).depth + 1) >>)
    /\ UNCHANGED << batch, browsing, browsers, cancelRequested, opts, arg, site, pc, visitedUrls, results, maxDepthReached, currentDepthLevel,
                    linkEmitCounter, events, inFlight, crawlCalls, callLog, scopeLog,
                    returned >>

\* the child call of the loop, were the delay before it left out
ChildWithoutDelay(t) ==
    /\ At(t, "delay")
    /\ tasks' = [tasks EXCEPT ![t] =
                    Append(SetTop(t, [Top(t) EXCEPT !.pc = "loop", !.i = Top(t).i + 1])[t],
                           Frame(Top(t).childLinks[Top(t).i], Top(t).depth + 1))]
    /\ UNCHANGED << batch, browsing, browsers, cancelRequested, opts, arg, site, pc, visitedUrls, results, maxDepthReached, currentDepthLevel,
                    linkEmitCounter, events, inFlight, crawlCalls, delaysSinceCall, callLog,
                    scopeLog, returned >>

\* a loop that, when the key of the link is visited by the time its turn
\* comes, drops the link from the page's list and goes on with the next one
DelayElapsedSkipsVisited(t) ==
    /\ At(t, "delay")
    /\ delaysSinceCall' = delaysSinceCall + 1
    /\ IF normalizeUrl(Top(t).childLinks[Top(t).i]) \in visitedUrls
       THEN tasks' = SetTop(t, [Top(t) EXCEPT !.pc = "loop",
                                              !.childLinks = SubSeq(Top(t).childLinks, 1, Top(t).i - 1) \o
                                                             SubSeq(Top(t).childLinks, Top(t).i + 1, Len(Top(t).childLinks))])
       ELSE tasks' = [tasks EXCEPT ![t] =
                        Append(SetTop(t, [Top(t) EXCEPT !.pc = "loop", !.i = Top(t).i + 1])[t],
                               Frame(Top(t).childLinks[Top(t).i], Top(t).depth + 1))]
    /\ UNCHANGED << batch, browsing, browsers, cancelRequested, opts, arg, site, pc, visitedUrls, results, maxDepthReached, currentDepthLevel,
                    linkEmitCounter, events, inFlight, crawlCalls, callLog, scopeLog,
                    returned >>

\* crawlRecursive, lines 479-481: delay(delayMs) has elapsed, the awaited child
\* call starts
DelayElapsed(t) ==
    /\ At(t, "delay")
    /\ delaysSinceCall' = delaysSinceCall + 1
    /\ tasks' = [tasks EXCEPT ![t] =
                    Append(SetTop(t, [Top(t) EXCEPT !.pc = "loop", !.i = Top(t).i + 1])[t],
                           Frame(Top(t).childLinks[Top(t).i], Top(t).depth + 1))]
    /\ UNCHANGED << batch, browsing, browsers, cancelRequested, opts, arg, site, pc, visitedUrls, results, maxDepthReached, currentDepthLevel,
                    linkEmitCounter, events, inFlight, crawlCalls, callLog, scopeLog,
                    returned >>

\* recursiveCrawl, lines 321-332: the function takes startUrl and options, and
\* no option is a cancellation token; the caller that wants to cancel after
\* the second page can only note it, no line of recursiveCrawl reads it
Cancel ==
    /\ pc = "running" /\ opts.mode = "recursive"
    /\ opts.emitEvent # "null" /\ opts.socketId
    /\ ~cancelRequested /\ Len(results) = 2 /\ At(1, "loop")
    /\ cancelRequested' = TRUE
    /\ UNCHANGED << batch, browsing, browsers, opts, arg, site, pc, tasks, visitedUrls, results,
                    maxDepthReached, currentDepthLevel, linkEmitCounter, events, inFlight,
                    crawlCalls, delaysSinceCall, callLog, scopeLog, returned >>

\* recursiveCrawl, lines 515-577: `await crawlRecursive(startUrl, 0)` resumes;
\* the summary, crawl:complete, the return value
Finish ==
    /\ pc = "running" /\ opts.mode = "recursive" /\ tasks[1] = << >>
    /\ pc' = "done"
    /\ events' = safeEmit(TheSink, events,
                          [type |-> "crawl:complete", totalPages |-> Len(results),
                           totalLinks |-> SumLinks(results),
                           maxDepthReached |-> maxDepthReached])
    /\ returned' = [settled |-> TRUE, threw |-> FALSE, success |-> TRUE,
                    totalPages |-> Len(results), maxDepthReached |-> maxDepthReached]
    /\ UNCHANGED << batch, browsing, browsers, cancelRequested, opts, arg, site, tasks, visitedUrls, results, maxDepthReached,
                    currentDepthLevel, linkEmitCounter, inFlight, crawlCalls,
                    delaysSinceCall, callLog, scopeLog >>

Next ==
    \/ NormalizeCall
    \/ SanitizeCall
    \/ ClassifyCall
    \/ DetectPage
    \/ DetectCall
    \/ FetchCall
    \/ FetchReturn
    \/ PuppeteerCall
    \/ \E k \in DOMAIN browsing : Launch(k)
    \/ \E k \in DOMAIN browsing : PageAwait(k)
    \/ \E k \in DOMAIN browsing : Finally(k)
    \/ BrowseDone
    \/ BatchCall
    \/ \E j \in DOMAIN batch.slots : BatchCrawlReturn(j)
    \/ AllSettled
    \/ PauseElapsed
    \/ SingleCall
    \/ SingleReturn
    \/ StartRecursive
    \/ \E t \in DOMAIN tasks : Enter(t)
    \/ \E t \in DOMAIN tasks : CrawlOneCall(t)
    \/ \E t \in DOMAIN tasks : CrawlOneReturn(t)
    \/ \E t \in DOMAIN tasks : LoopHead(t)
    \/ \E t \in DOMAIN tasks : DelayElapsed(t)
    \/ Cancel
    \/ Finish

Spec == Init /\ [][Next]_vars

\* the event loop runs every continuation that is ready
FairSpec == Spec /\ WF_vars(Next)

-----------------------------------------------------------------------------
(* Properties *)

Recursive == opts.mode = "recursive"
Single == opts.mode = "single"
\* the caller configured a sink: an emitter and a socket id
SinkSet == opts.emitEvent = "fn" /\ opts.socketId
EventsOfType(type) == {i \in 1..Len(events) : events[i].type = type}
\* the key of an entry of results: normalizeUrl of the URL it reports
KeyOf(r) == normalizeUrl(r.url)
\* new URL(u).hostname
Hostname(u) == LowerCase(u.host)
Last(seq) == seq[Len(seq)]

\* C1: in a recursive session no two entries of results have the same
\* normalized URL key.
C1_Dedup ==
    Recursive =>
        \A i, j \in 1..Len(results) : i # j => KeyOf(results[i]) # KeyOf(results[j])

\* C2: in a recursive session |visited| <= maxPages, |results| <= maxPages and
\* intelligentCrawl is called at most maxPages times.
C2_PageBound ==
    Recursive =>
        /\ Cardinality(visitedUrls) <= opts.maxPages
        /\ Len(results) <= opts.maxPages
        /\ crawlCalls <= opts.maxPages

\* C2: the page limit stops a crawl that has links left to follow
C2_LimitHit ==
    /\ Recursive /\ opts.maxPages >= 2
    /\ Len(results) = opts.maxPages /\ crawlCalls = opts.maxPages
    /\ \E t \in DOMAIN tasks :
         /\ At(t, "loop")
         /\ Top(t).i <= Len(Top(t).childLinks)

\* C3: in a recursive session every entry of results has a depth in
\* 0..maxDepth, the seed's entry has depth 0, and maxDepthReached (as kept and
\* as returned) is at most maxDepth.
C3_DepthBound ==
    Recursive =>
        /\ \A i \in 1..Len(results) : results[i].depth \in 0..opts.maxDepth
        /\ results # << >> => results[1].depth = 0
        /\ maxDepthReached <= opts.maxDepth
        /\ returned.settled => returned.maxDepthReached <= opts.maxDepth

\* C3: a page at depth maxDepth was crawled, had links, and none was followed
C3_DepthLimitHit ==
    /\ Recursive /\ pc = "done" /\ opts.maxDepth >= 1
    /\ \E i \in 1..Len(results) :
         /\ results[i].depth = opts.maxDepth
         /\ results[i].success /\ results[i].links # << >>
    /\ Len(results) < opts.maxPages

\* C4: with sameDomainOnly the scope check admits a URL exactly when its host
\* name equals the seed's (case-insensitively), and every entry of results has
\* the seed's host name.
C4_HostScope ==
    (Recursive /\ opts.sameDomainOnly) =>
        /\ \A d \in scopeLog : d.admitted <=> Hostname(d.url) = Hostname(opts.startUrl)
        /\ \A i \in 1..Len(results) : Hostname(results[i].url) = Hostname(opts.startUrl)

\* C5: a recursive session, whose calls and delays all terminate, ends: it
\* makes at most maxPages intelligentCrawl calls, emits crawl:complete last and
\* returns success; no crawl:error is emitted for a limit.
C5_Terminates ==
    /\ [](Recursive => (crawlCalls <= opts.maxPages /\ EventsOfType("crawl:error") = {}))
    /\ Recursive ~> (/\ Recursive /\ pc = "done"
                     /\ returned.settled /\ ~returned.threw /\ returned.success
                     /\ crawlCalls <= opts.maxPages
                     /\ SinkSet => (events # << >> /\ Last(events).type = "crawl:complete"))

\* C5: a session over a graph with a cycle ended: a crawled page below the seed
\* links back to the seed
C5_CycleCrawled ==
    /\ Recursive /\ pc = "done" /\ SinkSet
    /\ \E i \in 1..Len(results) :
         /\ results[i].depth >= 1
         /\ \E k \in 1..Len(results[i].links) :
              normalizeUrl(results[i].links[k]) = normalizeUrl(opts.startUrl)

\* C6: in a recursive session with a sink the events begin with the only
\* crawl:start and, once the session is over, end with the only crawl:complete;
\* nothing precedes crawl:start and crawl:complete is not emitted earlier.
C6_EventOrder ==
    (Recursive /\ SinkSet) =>
        /\ pc = "idle" => events = << >>
        /\ pc # "idle" => /\ events # << >>
                          /\ events[1].type = "crawl:start"
                          /\ Cardinality(EventsOfType("crawl:start")) = 1
        /\ pc = "done" => /\ Last(events).type = "crawl:complete"
                          /\ Cardinality(EventsOfType("crawl:complete")) = 1
        /\ pc # "done" => EventsOfType("crawl:complete") = {}

\* C6: a session with a sink is over, a page of it failed and the page limit
\* was reached
C6_FailedPageSession ==
    /\ Recursive /\ SinkSet /\ pc = "done"
    /\ Len(results) = opts.maxPages /\ opts.maxPages >= 2
    /\ \E i \in 1..Len(results) : ~results[i].success

\* C7: a single-page intelligentCrawl call with a sink emits exactly one
\* crawl:start, first, and exactly one crawl:complete, last, on every path.
C7_SingleEventOrder ==
    (Single /\ SinkSet /\ pc = "done") =>
        /\ events # << >>
        /\ events[1].type = "crawl:start"
        /\ Cardinality(EventsOfType("crawl:start")) = 1
        /\ Last(events).type = "crawl:complete"
        /\ Cardinality(EventsOfType("crawl:complete")) = 1

\* C8: intelligentCrawl returns a result object whatever the fetchers do; it
\* never throws, and a result that is no success carries an error kind of the
\* classifier.
C8_AlwaysReturns ==
    /\ (Single /\ pc = "done") =>
          /\ returned.settled /\ ~returned.threw
          /\ ~returned.result.success => returned.result.errorType \in ERROR_TYPES
    /\ Recursive =>
          \A i \in 1..Len(results) :
             ~results[i].success =>
                 results[i].errorType \in ERROR_TYPES

\* C8: the static fetch failed and the browser could not be closed
C8_BothFetchersFail ==
    /\ Single /\ pc = "done"
    /\ returned.world.net = NetTimeout /\ returned.world.pup1 = "closeThrows"
    /\ ~returned.result.success

\* C9: in a recursive session an intelligentCrawl call starts only when no
\* other one is in flight.
C9_Sequential ==
    Recursive =>
        /\ inFlight <= 1
        /\ \A i \in 1..Len(callLog) : callLog[i].inFlight = 0

\* C9: a third call is in flight
C9_ThirdCall == Recursive /\ Len(callLog) >= 3 /\ inFlight = 1

\* C10: in a recursive session every intelligentCrawl call but the first
\* starts after a delay(delayMs) that elapsed since the call before it started.
C10_RateFloor ==
    Recursive => \A i \in 2..Len(callLog) : callLog[i].delays >= 1

\* C10: a call that started after two delays: the link after the first delay
\* was sent back
C10_TwoDelays ==
    /\ Recursive /\ Len(callLog) >= 2
    /\ \E i \in 2..Len(callLog) : callLog[i].delays >= 2


\* the positions of the trace of the single-page crawl where fetcher is called
CallsOf(fetcher) ==
    {i \in DOMAIN returned.trace :
        returned.trace[i].type = "call" /\ returned.trace[i].fetcher = fetcher}

\* the single-page crawl was in auto mode and has returned
AutoDone == Single /\ pc = "done" /\ opts.forceMethod = "null"

\* its static fetch failed, or succeeded with an empty link list
StaticFailedOrEmpty ==
    \/ crawlWithAxios(opts.startUrl, DefaultMaxRetries, returned.world).threw
    \/ returned.world.ax = "bare"

\* C11: in auto mode, when the static fetch fails or succeeds with an empty
\* link list, the dynamic fetcher is invoked exactly once for the URL, the
\* detector is not consulted, and a crawl:method-detected event with method
\* puppeteer reaches the sink just before the dynamic fetch starts.
C11_DynamicOnce ==
    (AutoDone /\ StaticFailedOrEmpty) =>
        /\ Cardinality(CallsOf("puppeteer")) = 1
        /\ CallsOf("detector") = {}
        /\ SinkSet => \A i \in CallsOf("puppeteer") :
                         /\ i > 1
                         /\ returned.trace[i - 1].type = "crawl:method-detected"
                         /\ returned.trace[i - 1].method = "puppeteer"


\* the static fetch of the single-page crawl succeeded with at least one link
StaticGaveLinks == ~StaticFailedOrEmpty

\* the verdict of the detector on the static result
Verdict ==
    needsPuppeteer(returned.world.content,
                   crawlWithAxios(opts.startUrl, DefaultMaxRetries, returned.world).value.links)

\* C12: in auto mode, after a static fetch that succeeded with at least one
\* link, the dynamic fetcher is invoked if and only if the verdict says
\* needsPuppeteer with a confidence of at least detectionThreshold; otherwise
\* the static result is returned with success, method axios and the reason,
\* confidence and framework of the verdict.
C12_VerdictDecides ==
    (AutoDone /\ StaticGaveLinks) =>
        /\ CallsOf("detector") # {}
        /\ CallsOf("puppeteer") # {} <=>
               (Verdict.needsPuppeteer /\ Verdict.confidence >= opts.detectionThreshold)
        /\ CallsOf("puppeteer") = {} =>
               /\ ~returned.threw /\ returned.result.success
               /\ returned.result.method = "axios"
               /\ returned.result.detectionReason = Verdict.reason
               /\ returned.result.confidence = Verdict.confidence
               /\ returned.result.framework = Verdict.framework

\* the verdict asks for the dynamic fetcher below the threshold, and the
\* static result is returned
C12_BelowThreshold ==
    /\ AutoDone /\ StaticGaveLinks
    /\ Verdict.needsPuppeteer /\ Verdict.confidence < opts.detectionThreshold
    /\ returned.result.method = "axios" /\ returned.result.confidence = 7

\* the confidence equals the threshold, and the dynamic fetcher is invoked
C12_AtThreshold ==
    /\ AutoDone /\ StaticGaveLinks
    /\ Verdict.needsPuppeteer /\ Verdict.confidence = opts.detectionThreshold
    /\ returned.result.method = "puppeteer"


\* fetchWithRetry was called alone and has settled
FetchDone == opts.mode = "fetch" /\ pc = "done"

\* the positions of its log where it did op
StepsOf(op) == {i \in DOMAIN returned.log : returned.log[i].op = op}

\* how the k-th GET of the strict client ended: "none", or the kind of its error
KindOfAttempt(k) ==
    IF AxiosGet(returned.net.strict[k]).threw
    THEN getErrorType(AxiosGet(returned.net.strict[k]).error)
    ELSE "none"

\* the SSL family of the taxonomy, but for the expired certificate
SslFamily == {"SSL_CERT_INVALID", "SSL_SELF_SIGNED", "SSL_ERROR"}

\* C13: when a GET of the strict client fails with a kind of the SSL family
\* (invalid certificate, self-signed certificate, other SSL error), the legacy
\* client is tried exactly once, what it gives is what the fetch gives, and no
\* strict GET follows; the legacy client is used in no other situation.
C13_LegacyOnSsl ==
    FetchDone =>
        /\ \A i \in StepsOf("strict") :
              KindOfAttempt(returned.log[i].attempt) \in SslFamily =>
                  /\ i + 1 = Len(returned.log)
                  /\ returned.log[i + 1].op = "legacy"
                  /\ returned.threw = AxiosGet(returned.net.legacy).threw
                  /\ returned.status = AxiosGet(returned.net.legacy).status
                  /\ returned.error = AxiosGet(returned.net.legacy).error
        /\ Cardinality(StepsOf("legacy")) <= 1
        /\ \A i \in StepsOf("legacy") :
              /\ i > 1
              /\ returned.log[i - 1].op = "strict"
              /\ KindOfAttempt(returned.log[i - 1].attempt) \in SslFamily


\* the kinds the taxonomy marks not retryable
NonRetryableKinds ==
    {"DNS_ERROR", "INVALID_URL", "CONNECTION_REFUSED", "SSL_CERT_EXPIRED",
     "HTTP_ERROR_400", "HTTP_ERROR_404"}

\* the k-th GET of the strict client failed with a retryable kind outside ssl
RetryableFailure(k, ssl) == KindOfAttempt(k) \notin {"none"} \cup ssl \cup NonRetryableKinds

\* the schedule of the strict GETs, for a given reading of "SSL error"
RetrySchedule(ssl) ==
    FetchDone =>
        /\ Cardinality(StepsOf("strict")) <= opts.maxRetries
        /\ \A i \in StepsOf("strict") :
              returned.log[i].attempt > 1 =>
                  /\ i > 2
                  /\ returned.log[i - 1].op = "wait"
                  /\ returned.log[i - 1].ms = 1500 * (returned.log[i].attempt - 1)
                  /\ returned.log[i - 2].op = "strict"
                  /\ returned.log[i - 2].attempt = returned.log[i].attempt - 1
                  /\ RetryableFailure(returned.log[i].attempt - 1, ssl)
        /\ \A i \in StepsOf("strict") :
              (/\ KindOfAttempt(returned.log[i].attempt) \notin {"none"} \cup ssl
               /\ \/ returned.log[i].attempt = opts.maxRetries
                  \/ KindOfAttempt(returned.log[i].attempt) \in NonRetryableKinds) =>
                  /\ i = Len(returned.log)
                  /\ returned.threw
                  /\ returned.error = AxiosGet(returned.net.strict[returned.log[i].attempt]).error
        /\ \A i \in StepsOf("wait") : i < Len(returned.log) /\ returned.log[i + 1].op = "strict"

\* C14: the static fetcher makes at most maxRetries strict attempts; attempt
\* k+1 is made only after attempt k failed with a retryable error that is not
\* an SSL error and after a wait of 1500*k ms; on an error that is not
\* retryable, or after the last attempt, the error is thrown with no further
\* attempt and no further wait.
C14_RetryBudget == RetrySchedule(SslFamily)

\* the same schedule when "SSL error" is read as the kind SSL_ERROR alone
C14_RetryScheduleOfCode == RetrySchedule({"SSL_ERROR"})


\* the positions of the trace of the single-page crawl where the static
\* fetcher did op
FetchStepsOf(op) ==
    {i \in DOMAIN returned.trace :
        returned.trace[i].type = "fetch" /\ returned.trace[i].op = op}

\* C15: an auto crawl of a URL whose strict GET fails with an expired
\* certificate makes no legacy GET and no second strict GET, and returns a
\* result with success = false and the error kind SSL_CERT_EXPIRED.
C15_ExpiredCertificate ==
    (AutoDone /\ returned.world.net = NetExpired) =>
        /\ FetchStepsOf("legacy") = {}
        /\ Cardinality(FetchStepsOf("strict")) = 1
        /\ FetchStepsOf("wait") = {}
        /\ ~returned.threw
        /\ ~returned.result.success
        /\ returned.result.errorType = "SSL_CERT_EXPIRED"

\* the part of C15 about the static fetcher
C15_NoLegacyNoRetry ==
    (AutoDone /\ returned.world.net = NetExpired) =>
        /\ FetchStepsOf("legacy") = {}
        /\ Cardinality(FetchStepsOf("strict")) = 1
        /\ FetchStepsOf("wait") = {}
        /\ ~returned.threw


\* C16: when the server answers the first strict GET of an auto crawl with
\* HTTP 429 and attempts remain, the static fetcher waits the backoff and
\* retries; when the retry succeeds with links the detector accepts, the
\* crawl returns method axios.
C16_RateLimitedRetry ==
    (AutoDone /\ returned.world.net = NetBusy) =>
        /\ \E i \in FetchStepsOf("wait") : returned.trace[i].ms = 1500
        /\ Cardinality(FetchStepsOf("strict")) = 2
        /\ (returned.world.ax = "ok" /\ returned.world.content = PlainContent) =>
               (returned.result.success /\ returned.result.method = "axios")


\* the crawl:error events that are not fatal and name url
NonFatalErrorsFor(url) ==
    {i \in EventsOfType("crawl:error") :
        ~events[i].fatal /\ normalizeUrl(events[i].failedUrl) = normalizeUrl(url)}

\* C17: in a recursive session with a sink, every page whose intelligentCrawl
\* result is a failure has a crawl:error event with fatal = false that names
\* its URL, and is recorded in results with its depth.
C17_FailedPageReported ==
    (Recursive /\ SinkSet) =>
        \A i \in DOMAIN results :
            ~results[i].success =>
                /\ NonFatalErrorsFor(results[i].url) # {}
                /\ results[i].depth \in 0..opts.maxDepth

\* the part of C17 that holds: a failed page is recorded with its depth and
\* the session goes on to the pages selected after it
C17_RecordedAndContinues ==
    Recursive =>
        /\ \A i \in DOMAIN results : results[i].depth \in 0..opts.maxDepth
        /\ Len(results) = crawlCalls - inFlight


\* the crawl:error events that are fatal
FatalErrors == {i \in EventsOfType("crawl:error") : events[i].fatal}

\* C18: a recursive crawl cancelled after its second page completed returns
\* with two results, makes no further intelligentCrawl call, and its sink
\* receives exactly one fatal crawl:error followed by exactly one
\* crawl:complete.
C18_CancelStops ==
    (Recursive /\ cancelRequested) =>
        /\ crawlCalls = 2 /\ Len(results) = 2
        /\ (pc = "done" /\ SinkSet) =>
               /\ Cardinality(FatalErrors) = 1
               /\ Cardinality(EventsOfType("crawl:complete")) = 1
               /\ \A i \in FatalErrors : \A j \in EventsOfType("crawl:complete") : i < j

\* C19: in a recursive session, each of the five calls that follow a call whose
\* page was rate limited (HTTP 429) starts after waits of 2 * delayMs, every
\* other call but the first after waits of delayMs; no wait is shorter than
\* delayMs.
C19_RateLimitBackoff ==
    Recursive =>
        \A j \in 2..Len(callLog) :
            /\ callLog[j].delayMs >= DelayMs
            /\ callLog[j].delayMs =
                  IF \E i \in 1..(j - 1) : j - i <= 5 /\ callLog[i].rateLimited
                  THEN 2 * DelayMs ELSE DelayMs

\* the part of C19 that holds: no call but the first starts after a wait
\* shorter than delayMs
C19_DelayFloor ==
    Recursive => \A j \in 2..Len(callLog) : callLog[j].delayMs >= DelayMs


\* the options of the single-page crawl, without its sink
WithoutSink == [CallOptions(opts) EXCEPT !.emitEvent = "null", !.socketId = FALSE]

LaunchedBy(k) == {b \in DOMAIN browsers : browsers[b].owner = k}

\* C21: every call of crawlWithPuppeteer launches at most one browser; no call
\* uses the browser of another call; a call that launched a browser calls
\* browser.close() on it exactly once before it settles, whether the try block
\* returned or one of its awaits failed, and when the call returns (with a
\* success or with a failure result) its browser is closed.
C21_BrowserClosed ==
    /\ \A k \in DOMAIN browsing :
          /\ Cardinality(LaunchedBy(k)) <= 1
          /\ browsing[k].browser # 0 => LaunchedBy(k) = {browsing[k].browser}
          /\ browsing[k].browser = 0 => LaunchedBy(k) = {}
          /\ browsing[k].at = "settled" =>
                \A b \in LaunchedBy(k) :
                    /\ browsers[b].closeCalls = 1
                    /\ browsing[k].outcome \in {"success", "failure"} =>
                          browsers[b].state = "closed"
    /\ \A b \in DOMAIN browsers :
          /\ browsers[b].users \subseteq {browsers[b].owner}
          /\ browsers[b].closeCalls <= 1
          /\ browsers[b].closeCalls = 0 => browsing[browsers[b].owner].at # "settled"

\* a call whose page failed has returned its failure result with its browser
\* closed, while the browser of another call is running
C21_FailedPageClosed ==
    \E k, j \in DOMAIN browsing :
        /\ k # j
        /\ browsing[k].at = "settled" /\ browsing[k].outcome = "failure"
        /\ browsing[k].browser # 0 /\ browsers[browsing[k].browser].state = "closed"
        /\ browsers[browsing[k].browser].users = {k}
        /\ browsing[j].at = "extractPageData" /\ browsers[browsing[j].browser].state = "open"


Batch == opts.mode = "batch"

\* C22: intelligentCrawlBatch has at most `concurrency` intelligentCrawl calls
\* in flight; a call of a batch after the first starts only when every call of
\* the batches before it has returned and the pause of 1000 ms has elapsed;
\* the list it returns holds one result per input URL, in input order (the
\* k-th result reports the k-th URL, as given or normalized).
C22_Batch ==
    Batch =>
        /\ inFlight <= batch.concurrency
        /\ \A n \in DOMAIN batch.started :
              /\ batch.started[n].inFlight < batch.concurrency
              /\ batch.started[n].batchNo > 1 => batch.started[n].pausedMs = BatchPauseMs
        /\ batch.at = "all" =>
              /\ inFlight = Len(batch.slots) - SettledSlots
              /\ Len(batch.results) = batch.i
              /\ \A j \in DOMAIN batch.slots : batch.slots[j].input > Len(batch.results)
        /\ \A k \in DOMAIN batch.results :
              /\ batch.results[k].input = k
              /\ batch.results[k].result.url \in {batch.urls[k], ShownUrl(batch.urls[k])}
        /\ pc = "done" =>
              /\ ~returned.threw
              /\ returned.results = batch.results
              /\ Len(returned.results) = Len(batch.urls)

\* a batch crawl of two batches has returned; in its first batch the call for
\* the second URL settled before the call for the first
C22_SettledOutOfOrder ==
    /\ Batch /\ pc = "done" /\ batch.concurrency = 2 /\ Len(batch.urls) = 3
    /\ \E n \in DOMAIN batch.started : batch.started[n].batchNo = 2
    /\ batch.results[1].order = 2 /\ batch.results[2].order = 1
    /\ batch.results[1].result.success /\ ~batch.results[2].result.success


\* the session on https://site.test, every page of which was crawled with success
SiteTestSession ==
    /\ Recursive /\ opts = SiteTestOptions /\ site = SiteTest
    /\ \A i \in DOMAIN results : results[i].success

\* C23: the recursive crawl of https://site.test with maxDepth 2, maxPages 5,
\* childLinksPerPage 2 and sameDomainOnly, all of whose pages are fetched with
\* success, never crawls /b1 or the other host and ends with visited = {/, /a,
\* /b, /a1, /a2}, five results and maxDepthReached = 2.
C23_SiteTest ==
    SiteTestSession =>
        /\ TestB1 \notin visitedUrls /\ normalizeUrl(External) \notin visitedUrls
        /\ \A i \in DOMAIN results : Hostname(results[i].url) = Hostname(TestRoot)
        /\ pc = "done" =>
              /\ visitedUrls = {TestRoot, TestA, TestB, TestA1, TestA2}
              /\ Len(results) = 5
              /\ maxDepthReached = 2 /\ returned.maxDepthReached = 2
              /\ returned.totalPages = 5

\* the session on https://site.test has ended, its five pages crawled with
\* success, /b last
C23_SiteTestDone ==
    /\ SiteTestSession /\ pc = "done" /\ Len(results) = 5
    /\ normalizeUrl(results[5].url) = TestB /\ results[5].links # << >>
    /\ crawlCalls = 5


\* C24: a recursive session on a valid seed with maxDepth = 0 or maxPages = 1
\* calls intelligentCrawl once, on the seed: results gets one entry, at depth
\* 0, whatever links the seed page has, and no delay is waited for a child.
C24_SeedOnly ==
    (Recursive /\ Parses(opts.startUrl) /\ (opts.maxDepth = 0 \/ opts.maxPages = 1)) =>
        /\ crawlCalls <= 1 /\ Len(results) <= 1
        /\ delaysSinceCall = 0
        /\ \A t \in DOMAIN tasks : ~At(t, "delay")
        /\ \A n \in DOMAIN callLog : callLog[n].delays = 0
        /\ \A i \in DOMAIN results :
              /\ results[i].depth = 0
              /\ normalizeUrl(results[i].url) = normalizeUrl(opts.startUrl)
        /\ pc = "done" => (crawlCalls = 1 /\ Len(results) = 1)

\* a session with maxPages = 1 and maxDepth >= 1 has ended: its seed page was
\* crawled with success and has links, none of which was followed
C24_LinksNotFollowed ==
    /\ Recursive /\ Parses(opts.startUrl) /\ opts.maxPages = 1 /\ opts.maxDepth >= 1
    /\ pc = "done" /\ Len(results) = 1 /\ crawlCalls = 1
    /\ results[1].success /\ Len(results[1].links) >= 2


\* normalizeUrl was called on a valid absolute http(s) URL and has returned
KeyDone == opts.mode = "key" /\ pc = "done" /\ Parses(arg.url)

\* x and y differ in nothing but one trailing slash, the query or the fragment
DifferInTail(x, y) ==
    /\ Parses(x) /\ Parses(y)
    /\ x.scheme = y.scheme /\ x.host = y.host /\ x.port = y.port /\ x.path = y.path
    /\ x.ts - y.ts \in {-1, 0, 1}

\* C25: normalizeUrl is idempotent on valid absolute http(s) URLs, whatever the
\* shape of the path (root, no trailing slash, one or several trailing
\* slashes), with or without query and fragment; and two URLs that differ only
\* in a trailing slash, the query or the fragment get the same key.
C25_KeyIdempotent ==
    KeyDone =>
        /\ returned.key # Null
        /\ normalizeUrl(returned.key) = returned.key
        /\ \A y \in UrlInputs : DifferInTail(arg.url, y) => normalizeUrl(y) = returned.key

\* the same for the URLs whose path ends with at most one slash
C25_SingleSlashKey ==
    (KeyDone /\ arg.url.ts <= 1) =>
        /\ returned.key # Null
        /\ normalizeUrl(returned.key) = returned.key
        /\ \A y \in UrlInputs :
              (DifferInTail(arg.url, y) /\ y.ts <= 1) => normalizeUrl(y) = returned.key


\* sanitizeLinks was called and has returned
LinksDone == opts.mode = "links" /\ pc = "done"

\* C26: the list sanitizeLinks returns, for every list of links and base URL,
\* has no two entries with the same normalized key, and every entry is an
\* absolute http/https URL that isValidUrlFormat accepts.
C26_SanitizedKeys ==
    LinksDone =>
        /\ \A i, j \in DOMAIN returned.links :
              i # j => normalizeUrl(returned.links[i]) # normalizeUrl(returned.links[j])
        /\ \A i \in DOMAIN returned.links :
              /\ returned.links[i].scheme \in {"http", "https"}
              /\ isValidUrlFormat(returned.links[i])

\* the part of C26 that holds: the entries are valid absolute http/https URLs,
\* no two of them the same string
C26_ValidAndDistinct ==
    LinksDone =>
        /\ \A i, j \in DOMAIN returned.links : i # j => returned.links[i] # returned.links[j]
        /\ \A i \in DOMAIN returned.links :
              /\ returned.links[i].scheme \in {"http", "https"}
              /\ isValidUrlFormat(returned.links[i])


\* an error was classified
ClassifyDone == opts.mode = "classify" /\ pc = "done"

\* the closed taxonomy, in its order
Taxonomy ==
    << "SSL_CERT_EXPIRED", "SSL_CERT_INVALID", "SSL_SELF_SIGNED", "SSL_ERROR", "TIMEOUT",
       "CONNECTION_REFUSED", "DNS_ERROR", "RATE_LIMITED", "HTTP_4xx", "HTTP_5xx",
       "INVALID_URL", "UNKNOWN_ERROR" >>

\* the kind of the taxonomy a returned kind stands for: HTTP_ERROR_<status> is
\* HTTP_4xx or HTTP_5xx after its status
TaxonomyKind(errorType) ==
    CASE errorType \in {"HTTP_ERROR_400", "HTTP_ERROR_404"} -> "HTTP_4xx"
      [] errorType \in {"HTTP_ERROR_500", "HTTP_ERROR_503"} -> "HTTP_5xx"
      [] OTHER -> errorType

\* the rule of a kind, taken alone, matches the error
RuleMatches(kind, error) ==
    CASE kind = "SSL_CERT_EXPIRED" -> error.code = "CERT_HAS_EXPIRED"
      [] kind = "SSL_CERT_INVALID" ->
            error.code \in {"UNABLE_TO_VERIFY_LEAF_SIGNATURE", "ERR_TLS_CERT_ALTNAME_INVALID"}
      [] kind = "SSL_SELF_SIGNED" ->
            error.code \in {"SELF_SIGNED_CERT_IN_CHAIN", "DEPTH_ZERO_SELF_SIGNED_CERT"}
      [] kind = "SSL_ERROR" -> error.code = "EPROTO" \/ error.msg \cap {"SSL", "TLS"} # {}
      [] kind = "TIMEOUT" -> error.code = "ETIMEDOUT" \/ "timeout" \in error.msg
      [] kind = "CONNECTION_REFUSED" -> error.code = "ECONNREFUSED"
      [] kind = "DNS_ERROR" -> error.code = "ENOTFOUND"
      [] kind = "RATE_LIMITED" -> error.status = 429
      [] kind = "HTTP_4xx" -> error.status >= 400 /\ error.status < 500
      [] kind = "HTTP_5xx" -> error.status >= 500
      [] kind = "INVALID_URL" -> error.code = "ERR_INVALID_URL"
      [] OTHER -> TRUE

C29_RetryAgreesWithTable ==
    ClassifyDone => (returned.noRetry <=> ~returned.errorInfo.isRetryable)


\* intelligentCrawl in auto mode has returned; its static fetch gave a body
\* that contains __NEXT_DATA__ and 2 links
NextDataPage ==
    /\ AutoDone /\ StaticGaveLinks
    /\ "__NEXT_DATA__" \in returned.world.content.markers
    /\ Len(crawlWithAxios(opts.startUrl, DefaultMaxRetries, returned.world).value.links) = 2

\* C28: for intelligentCrawl in auto mode on a page whose static body contains
\* __NEXT_DATA__ and has 2 links, the verdict of the detector is
\* needsPuppeteer with a confidence of at least 0.7 and the framework
\* "nextjs"; the dynamic fetcher is invoked, and the method of a result with
\* success is puppeteer.
C28_NextJsVerdict ==
    NextDataPage =>
        /\ Verdict.needsPuppeteer /\ Verdict.confidence >= 7
        /\ Verdict.framework = "nextjs"
        /\ CallsOf("puppeteer") # {}
        /\ (~returned.threw /\ returned.result.success) => returned.result.method = "puppeteer"

\* the part of C28 that holds, with the framework the detector reports
C28_ReactVerdict ==
    NextDataPage =>
        /\ Verdict.needsPuppeteer /\ Verdict.confidence >= 7
        /\ Verdict.framework = "react"
        /\ CallsOf("puppeteer") # {}
        /\ (~returned.threw /\ returned.result.success) => returned.result.method = "puppeteer"

\* the framework is nextjs only for a body that no pattern of react, vue or
\* angular matches
C28_NextJsOnlyByName ==
    (AutoDone /\ StaticGaveLinks /\ Verdict.framework = "nextjs") =>
        /\ returned.world.content.markers \cap {"__NEXT_DATA__", "_next/static"} = {}
        /\ returned.world.content.markers \cap {"next.js", "generator~next"} # {}

\* the crawl of https://spa.test, whose body gave a confidence of 0.7,
\* returned the result of the dynamic fetcher
C28_SpaDynamic ==
    /\ NextDataPage /\ opts = SpaOptions /\ Verdict.confidence = 7
    /\ ~returned.threw /\ returned.result.success /\ returned.result.method = "puppeteer"

\* a page was reported as nextjs
C28_NextJsReported ==
    AutoDone /\ StaticGaveLinks /\ Verdict.framework = "nextjs"


\* a link a page may be followed to: valid, not yet visited and, with
\* sameDomainOnly, of the seed's host
EligibleByHost(link) ==
    /\ normalizeUrl(link) # Null /\ normalizeUrl(link) \notin visitedUrls
    /\ opts.sameDomainOnly => Hostname(link) = Hostname(opts.startUrl)

\* the same, with the scope test of the code
EligibleBySameDomain(link) ==
    /\ normalizeUrl(link) # Null /\ normalizeUrl(link) \notin visitedUrls
    /\ opts.sameDomainOnly => isSameDomain(link, baseUrl)

\* the step in which the call chain t gets the result of a page and goes on
\* to its children
SelectsChildren(t) ==
    /\ t \in DOMAIN tasks' /\ At(t, "await")
    /\ Len(tasks'[t]) = Len(tasks[t])
    /\ tasks'[t][Len(tasks[t])].pc = "loop"

\* the step in which the call chain t calls crawlRecursive for a child
CallsChild(t) ==
    /\ t \in DOMAIN tasks' /\ tasks[t] # << >>
    /\ Len(tasks'[t]) = Len(tasks[t]) + 1

\* children are selected after a success above maxDepth only, as the first
\* childLinksPerPage eligible links of the page's list, and crawlRecursive is
\* called for them in this order, at most childLinksPerPage times
FollowsEligible(t, Eligible(_)) ==
    /\ SelectsChildren(t) =>
          /\ Last(results').success
          /\ Top(t).depth < opts.maxDepth
          /\ tasks'[t][Len(tasks[t])].childLinks =
                 Take(SelectSeq(Last(results').links, Eligible), opts.childLinksPerPage)
    /\ CallsChild(t) =>
          /\ Top(t).depth < opts.maxDepth
          /\ \E i \in DOMAIN results :
                /\ results[i].success /\ results[i].depth = Top(t).depth
                /\ \A n \in DOMAIN Top(t).childLinks :
                      \E m \in DOMAIN results[i].links :
                          results[i].links[m] = Top(t).childLinks[n]
          /\ Top(t).i <= Len(Top(t).childLinks) /\ Top(t).i <= opts.childLinksPerPage
          /\ Last(tasks'[t]).url = Top(t).childLinks[Top(t).i]
          /\ Last(tasks'[t]).depth = Top(t).depth + 1

\* C30: in a recursive session the children of a page are followed only when
\* the crawl of the page succeeded and its depth is below maxDepth; they are
\* the first childLinksPerPage links, in the order of the page's link list,
\* among the links that are valid, not yet visited and, with sameDomainOnly,
\* in scope (of the seed's host); crawlRecursive is called at most
\* childLinksPerPage times per page.
C30_ChildrenFollowed ==
    [][Recursive => \A t \in DOMAIN tasks : FollowsEligible(t, EligibleByHost)]_vars

\* what holds of C30: the same with the scope test of the code, which also
\* compares the protocol
C30_ChildrenOfSameOrigin ==
    [][Recursive => \A t \in DOMAIN tasks : FollowsEligible(t, EligibleBySameDomain)]_vars

\* a page had more eligible links than childLinksPerPage, and crawlRecursive
\* was called for the last of the selected ones
C30_CapApplied ==
    /\ Recursive /\ opts.childLinksPerPage = 2
    /\ \E t \in DOMAIN tasks :
         /\ Len(tasks[t]) >= 2
         /\ tasks[t][1].i = 3 /\ Len(tasks[t][1].childLinks) = 2
         /\ tasks[t][2].url = tasks[t][1].childLinks[2]
         /\ Len(results[1].links) = 3


\* the position in events of the crawl:progress event of the k-th visited URL
ProgressIndex(k) ==
    CHOOSE i \in EventsOfType("crawl:progress") :
        Cardinality({j \in EventsOfType("crawl:progress") : j <= i}) = k

\* the depth of the k-th visited URL: that of its entry of results or, while
\* its crawl is going on, that of the call of crawlRecursive
DepthOfVisit(k) ==
    IF k <= Len(results) THEN results[k].depth
    ELSE Top(CHOOSE t \in DOMAIN tasks : tasks[t] # << >> /\ Top(t).pc \in {"call", "await"}).depth

\* the k-th visited URL is not the first and its depth is not that of the
\* URL visited before it
DepthDiffers(k) == k > 1 /\ DepthOfVisit(k) # DepthOfVisit(k - 1)

\* C31: in a recursive session with a sink, crawl:depth-change with the new
\* depth is published exactly when the depth of a visited URL differs from the
\* depth of the URL visited before it, just before the crawl:progress of that
\* URL; none is published for a URL at the depth of the one before it.
C31_DepthChange ==
    (Recursive /\ SinkSet) =>
        /\ Cardinality(EventsOfType("crawl:progress")) = Cardinality(visitedUrls)
        /\ \A k \in 1..Cardinality(visitedUrls) :
              IF DepthDiffers(k)
              THEN /\ events[ProgressIndex(k) - 1].type = "crawl:depth-change"
                   /\ events[ProgressIndex(k) - 1].currentDepth = DepthOfVisit(k)
              ELSE events[ProgressIndex(k) - 1].type # "crawl:depth-change"
        /\ \A i \in EventsOfType("crawl:depth-change") :
              i < Len(events) /\ events[i + 1].type = "crawl:progress"

\* the crawl went down to depth 2 and came back to depth 1: a depth-change to
\* a shallower depth was published
C31_BackToShallower ==
    /\ Recursive /\ SinkSet
    /\ \E i, j \in EventsOfType("crawl:depth-change") :
         i < j /\ events[i].currentDepth = 2 /\ events[j].currentDepth = 1


\* C32: every crawl:progress event of a recursive session carries
\* pagesProcessed = |visited| at that moment, totalEstimate = maxPages and
\* percentage = min(100, floor(100 * |visited| / maxPages)).
C32_ProgressFloor ==
    (Recursive /\ SinkSet) =>
        \A k \in 1..Cardinality(EventsOfType("crawl:progress")) :
            /\ events[ProgressIndex(k)].pagesProcessed = k
            /\ events[ProgressIndex(k)].totalEstimate = opts.maxPages
            /\ events[ProgressIndex(k)].percentage = Min(100, (100 * k) \div opts.maxPages)

\* what holds of C32: the percentage is rounded to the nearest integer, halves
\* upwards
C32_ProgressRounded ==
    (Recursive /\ SinkSet) =>
        \A k \in 1..Cardinality(EventsOfType("crawl:progress")) :
            /\ k <= Cardinality(visitedUrls) /\ k <= opts.maxPages
            /\ events[ProgressIndex(k)].pagesProcessed = k
            /\ events[ProgressIndex(k)].totalEstimate = opts.maxPages
            /\ 2 * opts.maxPages * events[ProgressIndex(k)].percentage
                   \in (200 * k - opts.maxPages + 1)..(200 * k + opts.maxPages)


\* the positions of the crawl:link-found events that a step adds to events
NewLinkFound == {i \in (Len(events) + 1)..Len(events') : events'[i].type = "crawl:link-found"}

\* C33: in a recursive session with a sink crawl:link-found is emitted exactly
\* for the selected child links whose ordinal, counted over all pages of the
\* session, is a multiple of 5: at every moment the number of link-found
\* events is floor(n / 5) for the n child links selected so far, the j-th of
\* them carries linkCount = 5 * j, and the link of an event is the selected
\* link with that ordinal.
C33_EveryFifthLink ==
    /\ []((Recursive /\ SinkSet) =>
            /\ Cardinality(EventsOfType("crawl:link-found")) = linkEmitCounter \div 5
            /\ \A i \in EventsOfType("crawl:link-found") :
                  events[i].linkCount =
                      5 * Cardinality({j \in EventsOfType("crawl:link-found") : j <= i}))
    /\ [][(Recursive /\ SinkSet) =>
            \A t \in DOMAIN tasks :
                IF SelectsChildren(t)
                THEN /\ linkEmitCounter' =
                           linkEmitCounter + Len(tasks'[t][Len(tasks[t])].childLinks)
                     /\ \A n \in DOMAIN tasks'[t][Len(tasks[t])].childLinks :
                           (linkEmitCounter + n) % 5 = 0 <=>
                               \E i \in NewLinkFound :
                                   /\ events'[i].linkCount = linkEmitCounter + n
                                   /\ events'[i].url = tasks'[t][Len(tasks[t])].childLinks[n]
                ELSE linkEmitCounter' = linkEmitCounter /\ NewLinkFound = {}]_vars

\* the fifth selected link of a session, selected on a page other than the
\* seed, was announced
C33_FifthLinkAnnounced ==
    /\ Recursive /\ SinkSet
    /\ \E i \in EventsOfType("crawl:link-found") :
         events[i].linkCount = 5 /\ events[i].sourceUrl # normalizeUrl(opts.startUrl)


\* the positions of events with crawl:method-detected for the static fetcher
StaticDetected ==
    {i \in EventsOfType("crawl:method-detected") : events[i].method = "axios"}

\* a single-page crawl in auto mode with a sink announced the static fetcher
\* after crawl:start and before it called the fetcher
SingleAnnouncesStatic ==
    (AutoDone /\ SinkSet) =>
        \E i \in DOMAIN returned.trace :
            /\ returned.trace[i].type = "crawl:method-detected"
            /\ returned.trace[i].method = "axios"
            /\ \E j \in 1..(i - 1) : returned.trace[j].type = "crawl:start"
            /\ CallsOf("axios") # {}
            /\ \A j \in CallsOf("axios") : i < j

\* C34: every intelligentCrawl call in auto mode, those that a recursive
\* session with a sink makes for its pages included, publishes
\* crawl:method-detected with the static method before its static fetch, and
\* crawl:start precedes every crawl:method-detected of the session.
C34_StaticAnnounced ==
    /\ SingleAnnouncesStatic
    /\ (Recursive /\ SinkSet) =>
          /\ Cardinality(StaticDetected) >= Len(results)
          /\ \A i \in EventsOfType("crawl:method-detected") :
                \E j \in 1..(i - 1) : events[j].type = "crawl:start"

\* what holds of C34: the single-page calls
C34_SingleStaticAnnounced == SingleAnnouncesStatic

\* a recursive session with a sink publishes no crawl:method-detected and no
\* crawl:start of a page
C34_PagesSilent ==
    (Recursive /\ SinkSet) =>
        /\ EventsOfType("crawl:method-detected") = {}
        /\ Cardinality(EventsOfType("crawl:start")) <= 1


\* the calls of crawlRecursive for a child that are going on: the chain and
\* the position of the call on its stack
ChildCalls == {c \in (DOMAIN tasks) \X (2..(MaxDepthBound + 2)) : c[2] <= Len(tasks[c[1]])}

\* the URL handed to the call c, the hrefs discovered on its parent page
ChildUrl(c) == tasks[c[1]][c[2]].url
ParentHrefs(c) == site[tasks[c[1]][c[2] - 1].url]

\* the entry of results of the parent page of the call c: the last entry at
\* the parent's depth
ParentEntry(c) ==
    results[CHOOSE i \in DOMAIN results :
                /\ results[i].depth = tasks[c[1]][c[2] - 1].depth
                /\ \A j \in DOMAIN results : results[j].depth = results[i].depth => j <= i]

\* two URLs that differ at most in their trailing slashes: same scheme, host,
\* port, path and query string
SameButSlashes(a, b) == [a EXCEPT !.ts = 0] = [b EXCEPT !.ts = 0]

\* C35: in a recursive session the URL handed to intelligentCrawl for a child
\* page is the link as it was discovered on the parent page, query string
\* included, whichever fetcher produced the parent's links; only the keys in
\* visited have the query and the fragment removed.
C35_ChildKeepsQuery ==
    Recursive =>
        /\ \A c \in ChildCalls : \E m \in DOMAIN ParentHrefs(c) : SameButSlashes(ParentHrefs(c)[m], ChildUrl(c))
        /\ \A key \in visitedUrls : ~key.q

\* what holds of C35: the child of a page fetched by the static fetcher gets
\* the link as discovered, the child of a page fetched by the dynamic fetcher
\* gets the normalized key of a discovered link
C35_ChildByMethod ==
    Recursive =>
        /\ \A c \in ChildCalls :
              \E m \in DOMAIN ParentHrefs(c) :
                  ChildUrl(c) = IF ParentEntry(c).method = "axios" THEN ParentHrefs(c)[m]
                                ELSE normalizeUrl(ParentHrefs(c)[m])
        /\ \A key \in visitedUrls : ~key.q

\* a child of a page fetched by the static fetcher was called with a link that
\* has a query string
C35_StaticChildWithQuery ==
    /\ Recursive
    /\ \E c \in ChildCalls : ParentEntry(c).method = "axios" /\ ChildUrl(c).q


\* the pages marked as visited that have no entry in results yet
Unrecorded == Cardinality(visitedUrls) - Len(results)

\* the calls of crawlRecursive that stand between visitedUrls.add and the call
\* of intelligentCrawl, a stretch the code runs without a suspension
BeforeCall == {t \in DOMAIN tasks : \E k \in DOMAIN tasks[t] : tasks[t][k].pc = "call"}

\* C36: when a recursive session returns, results has exactly one entry for
\* every key in visited, whether the page succeeded or failed; while the
\* session runs, results never has more entries than visited has keys, and the
\* difference is at most the number of intelligentCrawl calls in flight, which
\* is 0 or 1.
C36_OneEntryPerVisited ==
    Recursive =>
        /\ pc = "done" => Len(results) = Cardinality(visitedUrls)
        /\ pc = "running" =>
              /\ Len(results) <= Cardinality(visitedUrls)
              /\ inFlight \in {0, 1}
              /\ BeforeCall = {} => Unrecorded <= inFlight
              /\ BeforeCall # {} => Unrecorded = 1 /\ inFlight = 0

\* a session returned with a failed page and a successful page in results
C36_FailedPageCounted ==
    /\ Recursive /\ pc = "done"
    /\ \E i, j \in DOMAIN results : ~results[i].success /\ results[j].success
    /\ Len(results) = Cardinality(visitedUrls)

\* a call of intelligentCrawl is in flight and its page is not in results yet
C36_OneInFlight ==
    Recursive /\ pc = "running" /\ inFlight = 1 /\ Unrecorded = 1 /\ Len(results) >= 1


\* the step in which the call chain t returns from a crawlRecursive call that
\* crawled nothing: the call was rejected by the checks of its first lines
ReturnsRejected(t) ==
    /\ t \in DOMAIN tasks' /\ At(t, "enter")
    /\ Len(tasks'[t]) = Len(tasks[t]) - 1

\* the frames of the chain t that are in their loop over the child links keep
\* these links in the step
ChildListKept(t) ==
    \A k \in DOMAIN tasks[t] :
        tasks[t][k].pc \in {"loop", "delay"} /\ t \in DOMAIN tasks' /\ k \in DOMAIN tasks'[t]
            => tasks'[t][k].childLinks = tasks[t][k].childLinks

\* C37: the child list of a page is fixed once, right after the page is
\* crawled. crawlRecursive is called for a selected link after its delay, in
\* the order of the list and once per link; when the call is rejected because
\* the key is visited by then, the page's list and position stay as they are,
\* so no other link takes its place and the page gets at most as many
\* children as were selected.
C37_ChildListFixed ==
    [][Recursive =>
         \A t \in DOMAIN tasks :
            /\ ChildListKept(t)
            /\ CallsChild(t) =>
                  /\ Top(t).pc = "delay"
                  /\ tasks'[t][Len(tasks[t])].i = Top(t).i + 1
                  /\ Last(tasks'[t]).url = Top(t).childLinks[Top(t).i]
            /\ ReturnsRejected(t) /\ Len(tasks[t]) >= 2 =>
                  /\ Last(tasks'[t]) = tasks[t][Len(tasks[t]) - 1]
                  /\ results' = results /\ visitedUrls' = visitedUrls
            /\ \A k \in DOMAIN tasks[t] :
                  tasks[t][k].pc \in {"loop", "delay"} => tasks[t][k].i <= Len(tasks[t][k].childLinks) + 1]_vars

\* the turn of a selected link has come after its delay, its key is visited by
\* now, the page limit is not reached, and the parent page has a further
\* eligible link that was not selected
C37_SkippedNotReplaced ==
    /\ Recursive /\ ~PageLimitReached
    /\ \E c \in ChildCalls :
          /\ c[2] = Len(tasks[c[1]])
          /\ tasks[c[1]][c[2]].pc = "enter"
          /\ tasks[c[1]][c[2]].normalizedUrl \in visitedUrls
          /\ \E m \in DOMAIN ParentEntry(c).links :
                /\ EligibleBySameDomain(ParentEntry(c).links[m])
                /\ \A n \in DOMAIN tasks[c[1]][c[2] - 1].childLinks :
                      tasks[c[1]][c[2] - 1].childLinks[n] # ParentEntry(c).links[m]

\* the same, for two selected links of one page that share a normalized key
C37_SameKeySelectedTwice ==
    /\ Recursive /\ ~PageLimitReached
    /\ \E c \in ChildCalls :
          /\ c[2] = Len(tasks[c[1]])
          /\ tasks[c[1]][c[2]].pc = "enter"
          /\ tasks[c[1]][c[2]].normalizedUrl \in visitedUrls
          /\ \E n \in DOMAIN tasks[c[1]][c[2] - 1].childLinks :
                /\ n < tasks[c[1]][c[2] - 1].i - 1
                /\ tasks[c[1]][c[2] - 1].childLinks[n] # tasks[c[1]][c[2]].url
                /\ normalizeUrl(tasks[c[1]][c[2] - 1].childLinks[n]) = tasks[c[1]][c[2]].normalizedUrl


\* the events of the single-page call that end it: crawl:complete and the
\* fatal crawl:error
CompleteEvents == EventsOfType("crawl:complete")

\* C38: within one single-page intelligentCrawl call with a sink,
\* crawl:complete and crawl:error with fatal = true exclude each other: no call
\* emits both, neither is emitted twice, and after either of them the call
\* emits no further event.
C38_CompleteOrFatal ==
    (Single /\ SinkSet) =>
        /\ CompleteEvents = {} \/ FatalErrors = {}
        /\ Cardinality(CompleteEvents \cup FatalErrors) <= 1
        /\ \A i \in CompleteEvents \cup FatalErrors : i = Len(events)

\* a single-page call in auto mode ended with a fatal crawl:error after it had
\* announced both fetchers
C38_FatalLast ==
    /\ Single /\ SinkSet /\ pc = "done" /\ opts.forceMethod = "null"
    /\ FatalErrors = {Len(events)}
    /\ Cardinality(EventsOfType("crawl:method-detected")) >= 2

\* a single-page call ended with crawl:complete
C38_CompleteLast ==
    /\ Single /\ SinkSet /\ pc = "done"
    /\ CompleteEvents = {Len(events)} /\ Len(events) >= 3


\* the call of intelligentCrawl on a page of the grid has returned
DetectDone == opts.mode = "detect" /\ pc = "done"

\* the page has at least 5 links and no framework fingerprint
ManyLinksNoFramework == Len(arg.links) >= 5 /\ detectFramework(arg.content.markers) = "none"

\* C39: for a page with at least 5 links and no framework fingerprint the
\* confidence of the detector is at most 0.5 for every script count and text
\* length, needsPuppeteer is false, and intelligentCrawl in auto mode returns
\* the static result without calling the dynamic fetcher, whatever
\* detectionThreshold is.
C39_ManyLinksStayStatic ==
    (DetectDone /\ ManyLinksNoFramework) =>
        /\ returned.detection.confidence <= 5
        /\ ~returned.detection.needsPuppeteer
        /\ returned.pupCalls = 0 /\ returned.detectorCalls = 1
        /\ returned.result.success /\ returned.result.method = "axios"
        /\ EventsOfType("crawl:method-detected") # {}
        /\ \A i \in EventsOfType("crawl:method-detected") : events[i].method = "axios"

\* such a page with every content signal, confidence 0.5, and a threshold of 0
C39_AllContentSignals ==
    /\ DetectDone /\ ManyLinksNoFramework
    /\ returned.detection.confidence = 5
    /\ returned.detection.reason = {"script ratio", "minimal text", "many scripts"}
    /\ opts.detectionThreshold = 0


\* the static fetch of the page of the grid returned at least one link
DetectStaticGaveLinks == DetectDone /\ Len(DetectStatic(arg).links) >= 1

\* intelligentCrawl called the dynamic fetcher
Escalated == returned.pupCalls >= 1

\* C40: a detectionThreshold below 0.5 does not lower the bar. In auto mode a
\* page whose static fetch returned at least one link is escalated to the
\* dynamic fetcher only when the confidence is above 0.5, for every threshold
\* from 0 to 1; with a threshold up to 0.5 that is also sufficient, and with a
\* threshold above 0.5 the page is escalated exactly when the confidence is
\* at least the threshold.
C40_ThresholdBar ==
    DetectStaticGaveLinks =>
        /\ Escalated => returned.detection.confidence > 5
        /\ opts.detectionThreshold <= 5 => (Escalated <=> returned.detection.confidence > 5)
        /\ opts.detectionThreshold > 5 =>
              (Escalated <=> returned.detection.confidence >= opts.detectionThreshold)
        /\ ~Escalated => returned.result.method = "axios" /\ returned.detectorCalls = 1

\* a page of confidence 0.5 stayed static under a threshold of 0.3
C40_LowThresholdNoEffect ==
    /\ DetectStaticGaveLinks /\ opts.detectionThreshold = 3
    /\ returned.detection.confidence = 5 /\ ~Escalated

\* a page of confidence 0.6 stayed static under a threshold of 0.7
C40_HighThresholdRaises ==
    /\ DetectStaticGaveLinks /\ opts.detectionThreshold = 7
    /\ returned.detection.confidence = 6 /\ ~Escalated

\* a page of confidence 0.7 was escalated under a threshold of 0.7
C40_EscalatedAtThreshold ==
    /\ DetectStaticGaveLinks /\ opts.detectionThreshold = 7
    /\ returned.detection.confidence = 7 /\ Escalated

=============================================================================
